---- MODULE Spec2Model ----
(***************************************************************************)
(* A model of chainparser: the IDL-driven account decoder (type-tree       *)
(* decoder, primitive codecs, size oracle), the account discriminators and *)
(* the ChainparserDeserializer facade.  Byte buffers are sequences of      *)
(* 0..255, the JSON sink is a sequence of lexical tokens, and every        *)
(* decoder is an operator that threads a cursor record                     *)
(*   [st, buf, out, err]                                                   *)
(* (st = "ok" | "err" | "panic") exactly as the Rust code threads          *)
(* `buf: &mut &[u8]`, `f: &mut W` and the `?` operator.                    *)
(***************************************************************************)
EXTENDS Integers, Sequences, FiniteSets, TLC

VARIABLES
    pc,        \* position of the driver: which call has been made
    de,        \* DeserializeProvider in use: "borsh" | "spl"
    opts,      \* JsonSerializationOpts
    ty,        \* the IdlType handed to JsonIdlTypeDeserializer::deserialize
    input,     \* the caller's byte buffer before the call
    cur,       \* the cursor record after the call: [st, buf, out, err]
    again,     \* a second call on the same type and bytes: [opts, cur]
    ret,       \* the value returned by the last call that returns one
    idl,       \* the IDL the accounts deserializer was built from
    json_account_deserializers,  \* ChainparserDeserializer's map: id -> decoder
    added,     \* history: the ids some add call has succeeded for
    type_de_maps,  \* the heap of Arc<Mutex<HashMap<String, decoder>>> allocations
    threads,   \* the decode calls running on a shared facade, one per thread
    lock_holder    \* the thread holding the registry mutex, or Unlocked

vars == <<pc, de, opts, ty, input, cur, again, ret, idl,
         json_account_deserializers, added, type_de_maps, threads, lock_holder>>

\* no registry allocated, no thread started, the mutex free
NoMaps == <<>>
NoThreads == <<>>
Unlocked == "unlocked"

-----------------------------------------------------------------------------
(* Sequences helpers *)

Drop(s, n) == SubSeq(s, n + 1, Len(s))
Take(s, n) == SubSeq(s, 1, n)

RECURSIVE Repeat(_, _)
Repeat(x, n) == IF n <= 0 THEN <<>> ELSE <<x>> \o Repeat(x, n - 1)

-----------------------------------------------------------------------------
(* IdlType (solana_idl), as tagged records *)

\* the variants without payload: U8 .. I128, F32, F64, Bool, String, Bytes,
\* PublicKey
Prim(k) == [k |-> k]
TTuple(ts) == [k |-> "Tuple", inners |-> ts]
TArray(t, n) == [k |-> "Array", inner |-> t, len |-> n]
TVec(t) == [k |-> "Vec", inner |-> t]
THashMap(a, b) == [k |-> "HashMap", inner1 |-> a, inner2 |-> b]
TBTreeMap(a, b) == [k |-> "BTreeMap", inner1 |-> a, inner2 |-> b]
THashSet(t) == [k |-> "HashSet", inner |-> t]
TBTreeSet(t) == [k |-> "BTreeSet", inner |-> t]
TOption(t) == [k |-> "Option", inner |-> t]
TCOption(t) == [k |-> "COption", inner |-> t]
TDefined(n) == [k |-> "Defined", name |-> n]

(* IdlField, IdlTypeDefinitionTy, IdlEnumVariant, IdlTypeDefinition *)
Field(n, t) == [name |-> n, ty |-> t]
Struct(fs) == [k |-> "Struct", fields |-> fs]
Enum(vs) == [k |-> "Enum", variants |-> vs]
UnitVariant(n) == [name |-> n, fields |-> [k |-> "None"]]
NamedVariant(n, fs) == [name |-> n, fields |-> [k |-> "Named", fields |-> fs]]
TupleVariant(n, ts) == [name |-> n, fields |-> [k |-> "Tuple", types |-> ts]]
TypeDef(n, t) == [name |-> n, ty |-> t]

-----------------------------------------------------------------------------
(* The sink: a sequence of lexical tokens [c, s, v].                       *)
(*   c = a punctuation character or keyword, or the class of a rendered    *)
(*       value ("int", "float", "chr", "name", "b58"), or "list" for       *)
(*       decimal numbers joined by ", ";                                   *)
(*   s = the IDL type or the identifier the text was rendered from;        *)
(*   v = the bytes the text was rendered from.                             *)

Tok(c) == [c |-> c, s |-> "", v |-> <<>>]
QUOTE == Tok("\"")
COMMA == Tok(",")
COLON == Tok(":")
SPACE == Tok(" ")
IntTok(t, bytes) == [c |-> "int", s |-> t, v |-> bytes]
FloatTok(t, bytes) == [c |-> "float", s |-> t, v |-> bytes]
NameTok(n) == [c |-> "name", s |-> n, v |-> <<>>]
ChrTok(b) == [c |-> "chr", s |-> "", v |-> <<b>>]
B58Tok(bytes) == [c |-> "b58", s |-> "", v |-> bytes]

-----------------------------------------------------------------------------
(* The cursor record and the `?` plumbing *)

NoErr == [kind |-> "none"]
Cursor(buf) == [st |-> "ok", buf |-> buf, out |-> <<>>, err |-> NoErr]
Emit(s, toks) == IF s.st = "ok" THEN [s EXCEPT !.out = @ \o toks] ELSE s
Fail(s, e) == IF s.st = "ok" THEN [s EXCEPT !.st = "err", !.err = e] ELSE s
Abort(s) == IF s.st = "ok" THEN [s EXCEPT !.st = "panic"] ELSE s
Advance(s, n) == [s EXCEPT !.buf = Drop(@, n)]
\* Result::map_err(|e| Wrapper(name, Box::new(e)))
MapErr(s, kind, name) ==
    IF s.st = "err"
    THEN [s EXCEPT !.err = [kind |-> kind, name |-> name, inner |-> @]]
    ELSE s

-----------------------------------------------------------------------------
(* Bit operations on bytes and little-endian values *)

RECURSIVE BitAnd(_, _)
BitAnd(a, b) ==
    IF a = 0 \/ b = 0 THEN 0
    ELSE 2 * BitAnd(a \div 2, b \div 2) + (IF a % 2 = 1 /\ b % 2 = 1 THEN 1 ELSE 0)

\* u32::from_le_bytes, exact below 2^30; a larger value is kept as 2^30, which
\* is beyond the length of every buffer of the model
RECURSIVE LE(_)
LE(bytes) ==
    IF bytes = <<>> THEN 0
    ELSE LET r == LE(Tail(bytes))
         IN  IF r >= 4194304 THEN 1073741824 ELSE Head(bytes) + 256 * r

-----------------------------------------------------------------------------
(* src/deserializer/floats.rs *)

LOWER7_BITS_MASK == 127
UPPER4_BITS_MASK == 240

\* IEEE-754 classes of a little-endian bit pattern (what f32::from_le_bytes /
\* f64::from_le_bytes followed by is_nan / is_infinite compute).
F32Exp(b) == (b[4] % 128) * 2 + (b[3] \div 128)
F32MantNonZero(b) == b[3] % 128 # 0 \/ b[2] # 0 \/ b[1] # 0
F64Exp(b) == (b[8] % 128) * 16 + (b[7] \div 16)
F64MantNonZero(b) == b[7] % 16 # 0 \/ \E i \in 1..6 : b[i] # 0
FloatClass(exp, maxExp, mantNonZero) ==
    IF exp = maxExp THEN (IF mantNonZero THEN "nan" ELSE "inf") ELSE "finite"

FloatVal(class, bytes) == [class |-> class, bytes |-> bytes]
FloatErr(name) == [kind |-> "BorshDeserializeFloatError", name |-> name]

\* borsh's <f32 as BorshDeserialize>::deserialize: needs 4 bytes, advances, and
\* refuses a NaN.
BorshF32(s) ==
    IF Len(s.buf) < 4 THEN [s |-> Fail(s, FloatErr("f32")), v |-> FloatVal("none", <<>>)]
    ELSE LET b == Take(s.buf, 4)
             c == FloatClass(F32Exp(b), 255, F32MantNonZero(b))
         IN  IF c = "nan"
             THEN [s |-> Fail(Advance(s, 4), FloatErr("f32")), v |-> FloatVal("none", b)]
             ELSE [s |-> Advance(s, 4), v |-> FloatVal(c, b)]

BorshF64(s) ==
    IF Len(s.buf) < 8 THEN [s |-> Fail(s, FloatErr("f64")), v |-> FloatVal("none", <<>>)]
    ELSE LET b == Take(s.buf, 8)
             c == FloatClass(F64Exp(b), 2047, F64MantNonZero(b))
         IN  IF c = "nan"
             THEN [s |-> Fail(Advance(s, 8), FloatErr("f64")), v |-> FloatVal("none", b)]
             ELSE [s |-> Advance(s, 8), v |-> FloatVal(c, b)]

\* deserialize_f32 with a NaN branch that leaves the cursor where it was
deserialize_f32_nan_keeps_cursor(s) ==
    IF Len(s.buf) >= 4
    THEN IF BitAnd(s.buf[4], LOWER7_BITS_MASK) = LOWER7_BITS_MASK
         THEN [s |-> s, v |-> FloatVal("nan", Take(s.buf, 4))]
         ELSE BorshF32(s)
    ELSE BorshF32(s)

deserialize_f32(s) ==
    IF Len(s.buf) >= 4
    THEN IF BitAnd(s.buf[4], LOWER7_BITS_MASK) = LOWER7_BITS_MASK
         THEN [s |-> Advance(s, 4), v |-> FloatVal("nan", Take(s.buf, 4))]
         ELSE BorshF32(s)
    ELSE BorshF32(s)

\* deserialize_f64 looking at byte 7 alone
deserialize_f64_byte7_only(s) ==
    IF Len(s.buf) >= 8
    THEN IF BitAnd(s.buf[8], LOWER7_BITS_MASK) = LOWER7_BITS_MASK
         THEN [s |-> Advance(s, 8), v |-> FloatVal("nan", Take(s.buf, 8))]
         ELSE BorshF64(s)
    ELSE BorshF64(s)

deserialize_f64(s) ==
    IF Len(s.buf) >= 8
    THEN IF /\ BitAnd(s.buf[7], UPPER4_BITS_MASK) = UPPER4_BITS_MASK
            /\ BitAnd(s.buf[8], LOWER7_BITS_MASK) = LOWER7_BITS_MASK
         THEN [s |-> Advance(s, 8), v |-> FloatVal("nan", Take(s.buf, 8))]
         ELSE BorshF64(s)
    ELSE BorshF64(s)

-----------------------------------------------------------------------------
(* src/idl/idl_address.rs: the size oracle.  Option<usize> is a number, or *)
(* NoSize for None.  The type map is [some, defs]: None, or Some(the IDL's *)
(* type definitions).                                                      *)

NoSize == -1
NoTypeMap == [some |-> FALSE, defs |-> <<>>]
SomeTypeMap(defs) == [some |-> TRUE, defs |-> defs]

\* HashMap::get on a map filled by inserting the definitions in order: the last
\* definition inserted under a name is the one found.  0 when absent.
\* a lookup that does not see the definition registered last
MapIndex_misses_last(defs, name) ==
    LET hits == {i \in 1..(Len(defs) - 1) : defs[i].name = name}
    IN  IF hits = {} THEN 0 ELSE CHOOSE i \in hits : \A j \in hits : j <= i

MapIndex(defs, name) ==
    LET hits == {i \in 1..Len(defs) : defs[i].name = name}
    IN  IF hits = {} THEN 0 ELSE CHOOSE i \in hits : \A j \in hits : j <= i

RECURSIVE idl_type_bytes(_, _), idl_def_bytes(_, _), StructSize(_, _, _)

idl_type_bytes(t, type_map) ==
    CASE t.k \in {"U8", "I8", "Bool"} -> 1
      [] t.k \in {"U16", "I16"} -> 2
      [] t.k \in {"U32", "I32", "F32"} -> 4
      [] t.k \in {"U64", "I64", "F64"} -> 8
      [] t.k \in {"U128", "I128"} -> 16
      [] t.k = "PublicKey" -> 32
      [] t.k = "Array" ->
            LET x == idl_type_bytes(t.inner, type_map)
            IN  IF x = NoSize THEN NoSize ELSE x * t.len
      [] t.k = "COption" ->
            LET x == idl_type_bytes(t.inner, type_map)
            IN  IF x = NoSize THEN NoSize ELSE x + 4
      [] t.k = "Defined" ->
            LET i == IF type_map.some THEN MapIndex(type_map.defs, t.name) ELSE 0
            IN  IF i # 0 THEN idl_def_bytes(type_map.defs[i].ty, type_map) ELSE NoSize
      [] OTHER -> NoSize

\* the `for field in fields` loop of idl_def_bytes, from field i on
StructSize(fields, i, type_map) ==
    IF i > Len(fields) THEN 0
    ELSE LET size == idl_type_bytes(fields[i].ty, type_map)
         IN  IF size = NoSize THEN NoSize
             ELSE LET rest == StructSize(fields, i + 1, type_map)
                  IN  IF rest = NoSize THEN NoSize ELSE size + rest

idl_def_bytes(dty, type_map) ==
    IF dty.k = "Struct" THEN StructSize(dty.fields, 1, type_map)
    ELSE IF \A i \in 1..Len(dty.variants) : dty.variants[i].fields.k = "None"
         THEN 1
         ELSE NoSize

-----------------------------------------------------------------------------
(* src/deserializer/borsh.rs and src/deserializer/spl.rs: the primitive    *)
(* readers.  Each takes the cursor and returns [s, v]: the cursor after    *)
(* the read and the value read.                                            *)

BorshTypeErr(name) == [kind |-> "BorshDeserializeTypeError", name |-> name]

\* borsh's fixed-width integer readers: the value is kept as its bytes
ReadFixed(s, n, name) ==
    IF Len(s.buf) < n THEN [s |-> Fail(s, BorshTypeErr(name)), v |-> <<>>]
    ELSE [s |-> Advance(s, n), v |-> Take(s.buf, n)]

de_bool(s) ==
    IF Len(s.buf) < 1 THEN [s |-> Fail(s, BorshTypeErr("bool")), v |-> FALSE]
    ELSE LET b == s.buf[1]
         IN  IF b \in {0, 1} THEN [s |-> Advance(s, 1), v |-> (b = 1)]
             ELSE [s |-> Fail(Advance(s, 1), BorshTypeErr("bool")), v |-> FALSE]

\* borsh's Vec<u8>: a u32 length, then that many bytes
ReadVecU8(s, name) ==
    LET l == ReadFixed(s, 4, name)
    IN  IF l.s.st # "ok" THEN l
        ELSE IF Len(l.s.buf) < LE(l.v)
             THEN [s |-> Fail(l.s, BorshTypeErr(name)), v |-> <<>>]
             ELSE [s |-> Advance(l.s, LE(l.v)), v |-> Take(l.s.buf, LE(l.v))]

\* std::str::from_utf8
RECURSIVE Utf8Valid(_)
Cont(b) == b >= 128 /\ b <= 191
Utf8Valid(b) ==
    IF b = <<>> THEN TRUE
    ELSE LET h == b[1]
             n == Len(b)
         IN  CASE h < 128 -> Utf8Valid(Drop(b, 1))
               [] h >= 194 /\ h <= 223 ->
                    n >= 2 /\ Cont(b[2]) /\ Utf8Valid(Drop(b, 2))
               [] h >= 224 /\ h <= 239 ->
                    /\ n >= 3 /\ Cont(b[2]) /\ Cont(b[3])
                    /\ (h = 224 => b[2] >= 160)
                    /\ (h = 237 => b[2] <= 159)
                    /\ Utf8Valid(Drop(b, 3))
               [] h >= 240 /\ h <= 244 ->
                    /\ n >= 4 /\ Cont(b[2]) /\ Cont(b[3]) /\ Cont(b[4])
                    /\ (h = 240 => b[2] >= 144)
                    /\ (h = 244 => b[2] <= 143)
                    /\ Utf8Valid(Drop(b, 4))
               [] OTHER -> FALSE

de_string(s) ==
    LET r == ReadVecU8(s, "String")
    IN  IF r.s.st = "ok" /\ ~Utf8Valid(r.v)
        THEN [s |-> Fail(r.s, BorshTypeErr("String")), v |-> <<>>]
        ELSE r

PUBKEY_BYTES == 32

\* BorshDeserializer::pubkey errors on a short buffer; SplDeserializer::pubkey
\* slices buf[0..32] first, which aborts on a short buffer.
de_pubkey(d, s) ==
    IF d = "borsh" THEN ReadFixed(s, PUBKEY_BYTES, "Pubkey")
    ELSE IF Len(s.buf) < PUBKEY_BYTES THEN [s |-> Abort(s), v |-> <<>>]
         ELSE [s |-> Advance(s, PUBKEY_BYTES), v |-> Take(s.buf, PUBKEY_BYTES)]

UnsupportedErr(d, what) ==
    [kind |-> "DeserializerDoesNotSupportType", name |-> d, what |-> what]
InvalidDataErr(why) ==
    [kind |-> "InvalidDataToDeserialize", name |-> "coption", what |-> why]

\* de_option taking only tag 1 for present
de_option_one_is_present(d, s) ==
    IF d = "borsh"
    THEN LET r == ReadFixed(s, 1, "u8")
         IN  [s |-> r.s, v |-> (r.s.st = "ok" /\ r.v[1] = 1)]
    ELSE [s |-> Fail(s, UnsupportedErr("spl", "option")), v |-> FALSE]

\* BorshDeserializer::option reads a u8 and answers v != 0
de_option(d, s) ==
    IF d = "borsh"
    THEN LET r == ReadFixed(s, 1, "u8")
         IN  [s |-> r.s, v |-> (r.s.st = "ok" /\ r.v[1] # 0)]
    ELSE [s |-> Fail(s, UnsupportedErr("spl", "option")), v |-> FALSE]

\* de_coption that does not skip the padding of an absent value
de_coption_no_padding(d, s, inner) ==
    IF d = "borsh" THEN [s |-> Fail(s, UnsupportedErr("borsh", "coption")), v |-> FALSE]
    ELSE IF Len(s.buf) < 4 THEN [s |-> Fail(s, InvalidDataErr("buf too short")), v |-> FALSE]
    ELSE LET tag == Take(s.buf, 4)
             s1 == Advance(s, 4)
         IN  CASE tag = <<0, 0, 0, 0>> -> [s |-> s1, v |-> FALSE]
               [] tag = <<1, 0, 0, 0>> -> [s |-> s1, v |-> TRUE]
               [] OTHER -> [s |-> Fail(s1, InvalidDataErr("invalid tag")), v |-> FALSE]

de_coption(d, s, inner) ==
    IF d = "borsh" THEN [s |-> Fail(s, UnsupportedErr("borsh", "coption")), v |-> FALSE]
    ELSE IF Len(s.buf) < 4 THEN [s |-> Fail(s, InvalidDataErr("buf too short")), v |-> FALSE]
    ELSE LET tag == Take(s.buf, 4)
             s1 == Advance(s, 4)
         IN  CASE tag = <<0, 0, 0, 0>> ->
                    LET byte_len == idl_type_bytes(inner, NoTypeMap)
                    IN  IF byte_len # NoSize
                        THEN IF byte_len > Len(s1.buf)
                             THEN [s |-> Abort(s1), v |-> FALSE]
                             ELSE [s |-> Advance(s1, byte_len), v |-> FALSE]
                        ELSE [s |-> Fail(s1, InvalidDataErr("byte size of inner type unknown")),
                              v |-> FALSE]
               [] tag = <<1, 0, 0, 0>> -> [s |-> s1, v |-> TRUE]
               [] OTHER -> [s |-> Fail(s1, InvalidDataErr("invalid tag")), v |-> FALSE]

IntWidth(k) ==
    CASE k \in {"U8", "I8"} -> 1
      [] k \in {"U16", "I16"} -> 2
      [] k \in {"U32", "I32"} -> 4
      [] k \in {"U64", "I64"} -> 8
      [] OTHER -> 16

\* deserializer/mod.rs: the readers of trait ChainparserDeserialize, named by
\* the IdlType each one reads; [s, v]
Read(d, t, s) ==
    CASE t.k \in {"U8", "U16", "U32", "U64", "U128",
                  "I8", "I16", "I32", "I64", "I128"} -> ReadFixed(s, IntWidth(t.k), t.k)
      [] t.k = "F32" -> deserialize_f32(s)
      [] t.k = "F64" -> deserialize_f64(s)
      [] t.k = "Bool" -> de_bool(s)
      [] t.k = "String" -> de_string(s)
      [] t.k = "Bytes" -> ReadVecU8(s, "bytes")
      [] t.k = "PublicKey" -> de_pubkey(d, s)
      [] t.k = "Option" -> de_option(d, s)
      [] t.k = "COption" -> de_coption(d, s, t.inner)

-----------------------------------------------------------------------------
(* src/json: the decoders.  d is the DeserializeProvider ("borsh" | "spl"),*)
(* tm the definitions registered in the JsonTypeDefinitionDeserializerMap, *)
(* o the JsonSerializationOpts, s the cursor.                              *)

\* json_common.rs: write_quoted
\* write_quoted leaving the closing quote out
write_quoted_unclosed(s, toks) == Emit(s, <<QUOTE>> \o toks)

write_quoted(s, toks) == Emit(s, <<QUOTE>> \o toks \o <<QUOTE>>)

RECURSIVE ChrToks(_)
ChrToks(bytes) ==
    IF bytes = <<>> THEN <<>> ELSE <<ChrTok(Head(bytes))>> \o ChrToks(Tail(bytes))

\* Vec<String>::join(", ") of the decimal form of each byte, written by one
\* write_str: one token holding the numbers, no token for the empty string
JoinBytes(bytes) ==
    IF bytes = <<>> THEN <<>> ELSE <<[c |-> "list", s |-> "U8", v |-> bytes]>>

\* f32::to_string / f64::to_string
FloatToks(t, v) ==
    CASE v.class = "nan" -> <<Tok("NaN")>>
      [] v.class = "inf" -> <<Tok("inf")>>
      [] OTHER -> <<FloatTok(t, v.bytes)>>

\* the `if self.opts.n64_as_string` / `n128_as_string` guards of the integer arms
\* one flag, n64_as_string, deciding for both widths
IntQuoted_one_flag(k, o) ==
    k \in {"U64", "I64", "U128", "I128"} /\ o.n64_as_string

IntQuoted(k, o) ==
    \/ k \in {"U64", "I64"} /\ o.n64_as_string
    \/ k \in {"U128", "I128"} /\ o.n128_as_string

CompositeCtx(what, i, len) == [what |-> what, i |-> i, len |-> len]

RECURSIVE Deserialize(_, _, _, _, _)
RECURSIVE TupleLoop(_, _, _, _, _, _)
RECURSIVE ElemLoop(_, _, _, _, _, _, _, _)
RECURSIVE MapLoop(_, _, _, _, _, _, _, _)
RECURSIVE FieldsLoop(_, _, _, _, _, _)
RECURSIVE TypeDefDeserialize(_, _, _, _, _)

\* json_idl_field_de.rs: JsonIdlFieldDeserializer::deserialize
FieldDeserialize(d, tm, o, field, s) ==
    LET s1 == Emit(s, <<QUOTE, NameTok(field.name), QUOTE, COLON>>)
    IN  MapErr(Deserialize(d, tm, o, field.ty, s1), "FieldDeserializeError", field.name)

\* json_common.rs: the loop of deserialize_fields_to_object, from field i on
FieldsLoop(d, tm, o, fields, i, s) ==
    IF i > Len(fields) \/ s.st # "ok" THEN s
    ELSE LET s1 == FieldDeserialize(d, tm, o, fields[i], s)
             s2 == IF i < Len(fields) THEN Emit(s1, <<COMMA>>) ELSE s1
         IN  FieldsLoop(d, tm, o, fields, i + 1, s2)

deserialize_fields_to_object(d, tm, o, fields, s) ==
    Emit(FieldsLoop(d, tm, o, fields, 1, Emit(s, <<Tok("{")>>)), <<Tok("}")>>)

\* json_idl_type_de.rs: the Tuple arm's loop, from element i on
TupleLoop(d, tm, o, inners, i, s) ==
    IF i > Len(inners) \/ s.st # "ok" THEN s
    ELSE LET s1 == Deserialize(d, tm, o, inners[i], s)
             s2 == IF i < Len(inners) THEN Emit(s1, <<COMMA, SPACE>>) ELSE s1
         IN  TupleLoop(d, tm, o, inners, i + 1, s2)

\* ElemLoop stopping one element early
ElemLoop_one_short(d, tm, o, inner, what, i, len, s) ==
    IF i >= len - 1 \/ s.st # "ok" THEN s
    ELSE LET s1 == MapErr(Deserialize(d, tm, o, inner, s),
                          "CompositeDeserializeError", CompositeCtx(what, i, len))
             s2 == IF i < len - 1 THEN Emit(s1, <<COMMA, SPACE>>) ELSE s1
         IN  ElemLoop(d, tm, o, inner, what, i + 1, len, s2)

\* the Array / Vec / HashSet arms' loop `for i in 0..len`, from index i on
ElemLoop(d, tm, o, inner, what, i, len, s) ==
    IF i >= len \/ s.st # "ok" THEN s
    ELSE LET s1 == MapErr(Deserialize(d, tm, o, inner, s),
                          "CompositeDeserializeError", CompositeCtx(what, i, len))
             s2 == IF i < len - 1 THEN Emit(s1, <<COMMA, SPACE>>) ELSE s1
         IN  ElemLoop(d, tm, o, inner, what, i + 1, len, s2)

\* the HashMap / BTreeMap arm's loop, from index i on
MapLoop(d, tm, o, inner1, inner2, i, len, s) ==
    IF i >= len \/ s.st # "ok" THEN s
    ELSE LET s1 == Emit(s, <<QUOTE>>)
             s2 == MapErr(Deserialize(d, tm, o, inner1, s1),
                          "CompositeDeserializeError", CompositeCtx("Key HashMap", i, len))
             s3 == Emit(s2, <<QUOTE, COLON, SPACE>>)
             s4 == MapErr(Deserialize(d, tm, o, inner2, s3),
                          "CompositeDeserializeError", CompositeCtx("Val HashMap", i, len))
             s5 == IF i < len - 1 THEN Emit(s4, <<COMMA, SPACE>>) ELSE s4
         IN  MapLoop(d, tm, o, inner1, inner2, i + 1, len, s5)

\* json_idl_type_de.rs: JsonIdlTypeDeserializer::deserialize
Deserialize(d, tm, o, t, s) ==
    IF s.st # "ok" THEN s
    ELSE CASE t.k \in {"U8", "U16", "U32", "U64", "U128",
                       "I8", "I16", "I32", "I64", "I128"} ->
                LET r == ReadFixed(s, IntWidth(t.k), t.k)
                IN  IF IntQuoted(t.k, o)
                    THEN write_quoted(r.s, <<IntTok(t.k, r.v)>>)
                    ELSE Emit(r.s, <<IntTok(t.k, r.v)>>)
           [] t.k = "F32" ->
                LET r == deserialize_f32(s) IN Emit(r.s, FloatToks("F32", r.v))
           [] t.k = "F64" ->
                LET r == deserialize_f64(s) IN Emit(r.s, FloatToks("F64", r.v))
           [] t.k = "Bool" ->
                LET r == de_bool(s)
                IN  Emit(r.s, <<Tok(IF r.v THEN "true" ELSE "false")>>)
           [] t.k = "String" ->
                LET r == de_string(s) IN write_quoted(r.s, ChrToks(r.v))
           [] t.k = "Tuple" ->
                Emit(TupleLoop(d, tm, o, t.inners, 1, Emit(s, <<Tok("[")>>)), <<Tok("]")>>)
           [] t.k = "Array" ->
                Emit(ElemLoop(d, tm, o, t.inner, "Array", 0, t.len, Emit(s, <<Tok("[")>>)),
                     <<Tok("]")>>)
           [] t.k = "Vec" ->
                LET l == ReadFixed(s, 4, "u32")
                IN  Emit(ElemLoop(d, tm, o, t.inner, "Vec", 0, LE(l.v),
                                  Emit(l.s, <<Tok("[")>>)),
                         <<Tok("]")>>)
           [] t.k \in {"HashMap", "BTreeMap"} ->
                LET l == ReadFixed(s, 4, "u32")
                IN  Emit(MapLoop(d, tm, o, t.inner1, t.inner2, 0, LE(l.v),
                                 Emit(l.s, <<Tok("{")>>)),
                         <<Tok("}")>>)
           [] t.k \in {"HashSet", "BTreeSet"} ->
                LET l == ReadFixed(s, 4, "u32")
                IN  Emit(ElemLoop(d, tm, o, t.inner, "HashSet", 0, LE(l.v),
                                  Emit(l.s, <<Tok("[")>>)),
                         <<Tok("]")>>)
           [] t.k = "Option" ->
                LET r == de_option(d, s)
                IN  IF r.s.st # "ok" THEN r.s
                    ELSE IF r.v
                    THEN MapErr(Deserialize(d, tm, o, t.inner, r.s),
                                "CompositeDeserializeError", CompositeCtx("Option", 0, 0))
                    ELSE Emit(r.s, <<Tok("null")>>)
           [] t.k = "COption" ->
                LET r == de_coption(d, s, t.inner)
                IN  IF r.s.st # "ok" THEN r.s
                    ELSE IF r.v
                    THEN MapErr(Deserialize(d, tm, o, t.inner, r.s),
                                "CompositeDeserializeError", CompositeCtx("Option", 0, 0))
                    ELSE Emit(r.s, <<Tok("null")>>)
           [] t.k = "Bytes" ->
                LET s1 == Emit(s, <<Tok("[")>>)
                    r == ReadVecU8(s1, "bytes")
                IN  Emit(r.s, JoinBytes(r.v) \o <<Tok("]")>>)
           [] t.k = "PublicKey" ->
                LET r == de_pubkey(d, s)
                IN  IF o.pubkey_as_base58
                    THEN write_quoted(r.s, <<B58Tok(r.v)>>)
                    ELSE Emit(r.s, <<Tok("[")>> \o JoinBytes(r.v) \o <<Tok("]")>>)
           [] t.k = "Defined" ->
                LET i == MapIndex(tm, t.name)
                IN  IF i # 0
                    THEN MapErr(TypeDefDeserialize(d, tm, o, tm[i], s),
                                "CompositeDeserializeError",
                                [what |-> "Defined", name |-> t.name])
                    ELSE Fail(s, [kind |-> "CannotFindDefinedType", name |-> t.name])

\* json_idl_enum_variant_de.rs: JsonIdlEnumVariantDeserializer::deserialize
write_key(s, name) == Emit(s, <<QUOTE, NameTok(name), QUOTE, COLON>>)

\* VariantDeserialize writing the payload without the variant-name wrapper
VariantDeserialize_untagged(d, tm, o, variant, s) ==
    CASE variant.fields.k = "Named" ->
            MapErr(deserialize_fields_to_object(d, tm, o, variant.fields.fields, s),
                   "EnumVariantDeserializeError", variant.name)
      [] variant.fields.k = "Tuple" ->
            MapErr(Deserialize(d, tm, o, TTuple(variant.fields.types), s),
                   "EnumVariantDeserializeError", variant.name)
      [] OTHER -> write_quoted(s, <<NameTok(variant.name)>>)

VariantDeserialize(d, tm, o, variant, s) ==
    CASE variant.fields.k = "Named" ->
            LET s1 == write_key(Emit(s, <<Tok("{")>>), variant.name)
                s2 == MapErr(deserialize_fields_to_object(d, tm, o, variant.fields.fields, s1),
                             "EnumVariantDeserializeError", variant.name)
            IN  Emit(s2, <<Tok("}")>>)
      [] variant.fields.k = "Tuple" ->
            LET s1 == write_key(Emit(s, <<Tok("{")>>), variant.name)
                s2 == MapErr(Deserialize(d, tm, o, TTuple(variant.fields.types), s1),
                             "EnumVariantDeserializeError", variant.name)
            IN  Emit(s2, <<Tok("}")>>)
      [] OTHER -> write_quoted(s, <<NameTok(variant.name)>>)

\* TypeDefDeserialize taking the last variant for a discriminant out of range
TypeDefDeserialize_clamps(d, tm, o, def, s) ==
    IF s.st # "ok" THEN s
    ELSE IF def.ty.k = "Struct"
    THEN MapErr(deserialize_fields_to_object(d, tm, o, def.ty.fields, s),
                "StructDeserializeError", def.name)
    ELSE IF Len(s.buf) < 1 THEN Fail(s, [kind |-> "BorshIoError"])
         ELSE LET discriminator == s.buf[1]
                  s1 == Advance(s, 1)
                  i == IF discriminator + 1 <= Len(def.ty.variants)
                       THEN discriminator + 1 ELSE Len(def.ty.variants)
              IN  MapErr(VariantDeserialize(d, tm, o, def.ty.variants[i], s1),
                         "EnumDeserializeError", def.name)

\* json_idl_type_def_de.rs: JsonIdlTypeDefinitionDeserializer::deserialize
TypeDefDeserialize(d, tm, o, def, s) ==
    IF s.st # "ok" THEN s
    ELSE IF def.ty.k = "Struct"
    THEN MapErr(deserialize_fields_to_object(d, tm, o, def.ty.fields, s),
                "StructDeserializeError", def.name)
    ELSE \* `u8::deserialize(buf)?` and `Err(InvalidEnumVariantDiscriminator)?`
         \* return before the trailing map_err is reached
         IF Len(s.buf) < 1 THEN Fail(s, [kind |-> "BorshIoError"])
         ELSE LET discriminator == s.buf[1]
                  s1 == Advance(s, 1)
              IN  IF discriminator + 1 <= Len(def.ty.variants)
                  THEN MapErr(VariantDeserialize(d, tm, o,
                                                 def.ty.variants[discriminator + 1], s1),
                              "EnumDeserializeError", def.name)
                  ELSE Fail(s1, [kind |-> "InvalidEnumVariantDiscriminator",
                                 name |-> discriminator])

-----------------------------------------------------------------------------
(* src/discriminator/mod.rs, src/json/discriminator.rs: the prefix         *)
(* (Anchor) discriminator                                                  *)

\* account_discriminator(name) = sha256("account:" + name)[..8], tabulated for
\* the account names of the model
account_discriminator(name) ==
    CASE name = "VaultInfo" -> <<133, 250, 161, 78, 246, 27, 55, 187>>
      [] name = "Config" -> <<155, 12, 170, 224, 30, 250, 204, 130>>
      [] name = "Ledger" -> <<43, 41, 21, 213, 180, 176, 95, 32>>

\* PrefixDiscriminator::new fills `deserializers` by inserting each account
\* under its discriminator, in order; get(discriminator) finds the last one
\* inserted.  0 when absent.
PrefixGet(accounts, discriminator) ==
    LET hits == {i \in 1..Len(accounts) :
                    account_discriminator(accounts[i].name) = discriminator}
    IN  IF hits = {} THEN 0 ELSE CHOOSE i \in hits : \A j \in hits : j <= i

TooShortErr(len, need) ==
    [kind |-> "AccountDataTooShortForDiscriminatorBytes", len |-> len, need |-> need]

\* deserialize_account_data handing the whole blob to the decoder
PrefixDeserializeAccountData_whole_blob(d, accounts, tm, o, account_data) ==
    IF Len(account_data) < 8
    THEN Fail(Cursor(account_data), TooShortErr(Len(account_data), 8))
    ELSE LET i == PrefixGet(accounts, Take(account_data, 8))
         IN  IF i = 0
             THEN Fail(Cursor(account_data),
                       [kind |-> "UnknownDiscriminatedAccount",
                        name |-> Take(account_data, 8)])
             ELSE TypeDefDeserialize(d, tm, o, accounts[i], Cursor(account_data))

\* PrefixDiscriminator::deserialize_account_data
PrefixDeserializeAccountData(d, accounts, tm, o, account_data) ==
    IF Len(account_data) < 8
    THEN Fail(Cursor(account_data), TooShortErr(Len(account_data), 8))
    ELSE LET discriminator == Take(account_data, 8)
             i == PrefixGet(accounts, discriminator)
         IN  IF i = 0
             THEN Fail(Cursor(account_data),
                       [kind |-> "UnknownDiscriminatedAccount", name |-> discriminator])
             ELSE TypeDefDeserialize(d, tm, o, accounts[i], Cursor(Drop(account_data, 8)))

-----------------------------------------------------------------------------
(* src/discriminator/match_discriminator.rs: the structural (Shank)        *)
(* discriminator                                                           *)

\* base_account_sizes: the loop over the fields, from field i on; a field of
\* unknown size is passed over
RECURSIVE SizesLoop(_, _, _, _)
SizesLoop(fields, i, offset, type_map) ==
    IF i > Len(fields) THEN [sizes |-> <<>>, offsets |-> <<>>]
    ELSE LET size == idl_type_bytes(fields[i].ty, type_map)
         IN  IF size # NoSize
             THEN LET r == SizesLoop(fields, i + 1, offset + size, type_map)
                  IN  [sizes |-> <<size>> \o r.sizes, offsets |-> <<offset>> \o r.offsets]
             ELSE SizesLoop(fields, i + 1, offset, type_map)

base_account_sizes(account, type_map) ==
    IF account.ty.k = "Struct"
    THEN [some |-> TRUE] @@ SizesLoop(account.ty.fields, 1, 0, type_map)
    ELSE [some |-> FALSE, sizes |-> <<>>, offsets |-> <<>>]

\* impl TryFrom<(&IdlType, &HashMap, usize)> for Matcher; k = "Err" for Err(())
MatcherTryFrom(t, type_map, offset) ==
    CASE t.k = "COption" ->
            LET n == idl_type_bytes(t.inner, type_map)
            IN  [k |-> "COption", offset |-> offset,
                 inner_size |-> IF n = NoSize THEN 0 ELSE n]
      [] t.k = "Bool" -> [k |-> "Bool", offset |-> offset, inner_size |-> 0]
      [] OTHER -> [k |-> "Err", offset |-> offset, inner_size |-> 0]

IsMatcher(m) == m.k # "Err"

\* account_matchers: fields.iter().zip(offsets) pairs the i-th field with the
\* i-th offset and stops at the shorter of the two
account_matchers(account, type_map, offsets) ==
    IF account.ty.k = "Struct"
    THEN LET fields == account.ty.fields
             n == IF Len(fields) < Len(offsets) THEN Len(fields) ELSE Len(offsets)
         IN  SelectSeq([i \in 1..n |-> MatcherTryFrom(fields[i].ty, type_map, offsets[i])],
                       IsMatcher)
    ELSE <<>>

RECURSIVE Sum(_)
Sum(s) == IF s = <<>> THEN 0 ELSE Head(s) + Sum(Tail(s))

\* MatchDiscriminator::new
MatchDiscriminatorNew(account, type_map) ==
    LET account_sizes == base_account_sizes(account, type_map)
        matchers == account_matchers(account, type_map, account_sizes.offsets)
    IN  IF account_sizes.some /\ matchers # <<>>
        THEN [some |-> TRUE, account |-> account,
              min_total_size |-> Sum(account_sizes.sizes), matchers |-> matchers]
        ELSE [some |-> FALSE, account |-> account, min_total_size |-> 0,
              matchers |-> <<>>]

IsSome(x) == x.some

\* slice::sort_by_key(|f| f.min_total_size): a stable sort
RECURSIVE SortByMinTotalSize(_)
SortByMinTotalSize(discs) ==
    IF discs = <<>> THEN <<>>
    ELSE LET x == discs[Len(discs)]
             rest == SortByMinTotalSize(SubSeq(discs, 1, Len(discs) - 1))
             NotAfter(e) == e.min_total_size <= x.min_total_size
             After(e) == e.min_total_size > x.min_total_size
         IN  SelectSeq(rest, NotAfter) \o <<x>> \o SelectSeq(rest, After)

\* impl From<(&[IdlTypeDefinition], &HashMap)> for MatchDiscriminators
MatchDiscriminatorsFrom(accounts, type_map) ==
    SortByMinTotalSize(
        SelectSeq([i \in 1..Len(accounts) |-> MatchDiscriminatorNew(accounts[i], type_map)],
                  IsSome))

\* Matcher::matches: "yes", "no", or "panic" when array_ref! is handed a
\* range that is not inside buf
MatcherMatches(m, buf) ==
    LET width == IF m.k = "COption" THEN 4 ELSE 1
    IN  IF m.offset + width > Len(buf) THEN "panic"
        ELSE LET src == SubSeq(buf, m.offset + 1, m.offset + width)
             IN  IF m.k = "COption"
                 THEN IF src \in {<<1, 0, 0, 0>>, <<0, 0, 0, 0>>} THEN "yes" ELSE "no"
                 ELSE IF src \in {<<0>>, <<1>>} THEN "yes" ELSE "no"

\* Iterator::all over the matchers, from matcher i on
RECURSIVE AllMatch(_, _, _)
AllMatch(matchers, i, buf) ==
    IF i > Len(matchers) THEN "yes"
    ELSE LET r == MatcherMatches(matchers[i], buf)
         IN  IF r = "yes" THEN AllMatch(matchers, i + 1, buf) ELSE r

\* MatchDiscriminator::matches_account
matches_account(disc, buf) ==
    IF Len(buf) < disc.min_total_size THEN "no" ELSE AllMatch(disc.matchers, 1, buf)

\* find_matching_disc, first loop, from discriminator i on: [st, exact,
\* candidates], exact being the index returned from inside the loop (or 0)
RECURSIVE FindLoop(_, _, _, _)
FindLoop(discs, i, buf, candidates) ==
    IF i > Len(discs) THEN [st |-> "ok", exact |-> 0, candidates |-> candidates]
    ELSE LET r == matches_account(discs[i], buf)
         IN  CASE r = "panic" -> [st |-> "panic", exact |-> 0, candidates |-> candidates]
               [] r = "yes" ->
                    IF discs[i].min_total_size = Len(buf)
                    THEN [st |-> "ok", exact |-> i, candidates |-> candidates]
                    ELSE FindLoop(discs, i + 1, buf, Append(candidates, i))
               [] OTHER -> FindLoop(discs, i + 1, buf, candidates)

\* find_matching_disc, second loop, from candidate j on; 0 is None
RECURSIVE BestCandidate(_, _, _, _)
BestCandidate(discs, candidates, j, best) ==
    IF j > Len(candidates) THEN best
    ELSE LET c == candidates[j]
         IN  IF best = 0 THEN BestCandidate(discs, candidates, j + 1, c)
             ELSE IF Len(discs[c].matchers) > Len(discs[best].matchers)
             THEN BestCandidate(discs, candidates, j + 1, c)
             ELSE BestCandidate(discs, candidates, j + 1, best)

\* MatchDiscriminators::find_matching_disc: [st, idx], idx = 0 for None
find_matching_disc(discs, buf) ==
    LET r == FindLoop(discs, 1, buf, <<>>)
    IN  IF r.st = "panic" THEN [st |-> "panic", idx |-> 0]
        ELSE IF r.exact # 0 THEN [st |-> "ok", idx |-> r.exact]
        ELSE [st |-> "ok", idx |-> BestCandidate(discs, r.candidates, 1, 0)]

\* MatchDiscriminators::find_match_name: [st, some, name]
find_match_name(discs, buf) ==
    LET r == find_matching_disc(discs, buf)
    IN  [st |-> r.st, some |-> r.idx # 0,
         name |-> IF r.idx # 0 THEN discs[r.idx].account.name ELSE ""]

\* json/discriminator.rs: MatchDiscriminator::deserialize_account_data and
\* deserialize_account_data_by_name; deserializer_by_name is filled in the
\* order of the discriminators, so get(name) finds the last one of that name
MatchDeserializeAccountData(d, accounts, tm, o, account_data) ==
    IF account_data = <<>> THEN Fail(Cursor(account_data), TooShortErr(0, 1))
    ELSE LET discs == MatchDiscriminatorsFrom(accounts, SomeTypeMap(tm))
             r == find_match_name(discs, account_data)
             hits == {i \in 1..Len(discs) : discs[i].account.name = r.name}
         IN  IF r.st = "panic" THEN Abort(Cursor(account_data))
             ELSE IF r.some
             THEN LET i == CHOOSE i \in hits : \A j \in hits : j <= i
                  IN  TypeDefDeserialize(d, tm, o, discs[i].account, Cursor(account_data))
             ELSE Fail(Cursor(account_data), [kind |-> "CannotFindDeserializerForAccount"])

-----------------------------------------------------------------------------
(* The inputs of the decoder runs *)

\* the type definitions of the IDL (idl.types), in registration order; Nest
\* refers to a type registered after it
IdlTypes ==
    << TypeDef("Pair", Struct(<<Field("a", Prim("Bool")), Field("b", Prim("U8"))>>)),
       TypeDef("Nest", Struct(<<Field("p", TDefined("Pair")),
                                Field("e", TDefined("Unit2"))>>)),
       TypeDef("Unit2", Enum(<<UnitVariant("A"), UnitVariant("B")>>)),
       TypeDef("Mixed", Enum(<<UnitVariant("Scalar"),
                               NamedVariant("NamedFields",
                                            <<Field("uno", Prim("U8")),
                                              Field("dos", Prim("U8"))>>)>>)),
       TypeDef("Tup", Enum(<<TupleVariant("UnnamedFields", <<Prim("U8"), Prim("Bool")>>),
                             UnitVariant("Scalar")>>)),
       TypeDef("Wide", Struct(<<Field("n", Prim("U64")),
                                Field("k", Prim("PublicKey"))>>)) >>

DecodeTypes ==
    { Prim("U8"), Prim("U16"), Prim("U32"), Prim("U64"), Prim("U128"),
      Prim("I8"), Prim("I64"), Prim("I128"), Prim("F32"), Prim("F64"),
      Prim("Bool"), Prim("String"), Prim("Bytes"), Prim("PublicKey"),
      TTuple(<<>>), TTuple(<<Prim("U8"), Prim("Bool")>>),
      TArray(Prim("Bool"), 2), TArray(Prim("U8"), 0),
      TVec(Prim("U8")), TVec(Prim("String")), TVec(TDefined("Pair")),
      THashMap(Prim("U8"), Prim("Bool")), THashMap(Prim("String"), Prim("U8")),
      TBTreeMap(Prim("U64"), Prim("Bool")),
      THashSet(Prim("U8")), TBTreeSet(Prim("Bool")),
      TOption(Prim("U8")), TOption(Prim("String")),
      TCOption(Prim("U8")), TCOption(Prim("Bool")), TCOption(TDefined("Pair")),
      TCOption(Prim("String")), TArray(TCOption(Prim("Bool")), 2),
      TDefined("Pair"), TDefined("Nest"), TDefined("Unit2"), TDefined("Mixed"),
      TDefined("Tup"), TDefined("Missing") }

Providers == {"borsh", "spl"}

Opts(b58, n64, n128) ==
    [pubkey_as_base58 |-> b58, n64_as_string |-> n64, n128_as_string |-> n128]
\* json_serialization_opts.rs: impl Default
DefaultOpts == Opts(TRUE, FALSE, FALSE)
AllOpts == [pubkey_as_base58 : BOOLEAN, n64_as_string : BOOLEAN, n128_as_string : BOOLEAN]
\* the decoder runs use the default policy and its opposite
DecodeOpts == {DefaultOpts, Opts(FALSE, TRUE, TRUE)}

\* Buffers are concatenations of at most MaxChunks chunks: single bytes (1, the
\* quote character, a letter), four-byte words (the lengths and tags 0, 1, 2
\* and a NaN pattern) and one 32-byte key.
MaxChunks == 3
Chunks ==
    { <<1>>, <<34>>, <<97>>,
      <<0, 0, 0, 0>>, <<1, 0, 0, 0>>, <<2, 0, 0, 0>>, <<0, 0, 240, 127>>,
      Repeat(7, PUBKEY_BYTES) }

RECURSIVE ChunkSeqs(_, _)
ChunkSeqs(chunks, n) ==
    IF n = 0 THEN {<<>>}
    ELSE LET prev == ChunkSeqs(chunks, n - 1)
         IN  prev \cup {p \o c : p \in prev, c \in chunks}

Buffers == ChunkSeqs(Chunks, MaxChunks)

NoCall == [opts |-> DefaultOpts, cur |-> Cursor(<<>>)]
NoRet == [class |-> "none", bytes |-> <<>>]
NoIdl == [provider |-> "none", accounts |-> <<>>, types |-> <<>>]

\* the ids callers register under: program ids as text, and one combined
\* with a slot
Ids == {"Prog1", "Prog2", "Prog1@7"}
Absent == [k |-> "absent"]
\* ChainparserDeserializer::new: an empty map
NoDeserializers == [id \in Ids |-> Absent]

-----------------------------------------------------------------------------
(* The decoder runs: one call of JsonIdlTypeDeserializer::deserialize, or  *)
(* of JsonIdlTypeDefinitionDeserializer::deserialize on a registered type, *)
(* on a fresh sink.                                                        *)

InitDecode ==
    /\ type_de_maps = NoMaps /\ threads = NoThreads /\ lock_holder = Unlocked
    /\ pc = "ready"
    /\ de \in Providers
    /\ opts \in DecodeOpts
    /\ ty \in DecodeTypes
    /\ input \in Buffers
    /\ cur = Cursor(input)
    /\ again = NoCall
    /\ ret = NoRet
    /\ idl = NoIdl
    /\ json_account_deserializers = NoDeserializers
    /\ added = {}

DeserializeType ==
    /\ pc = "ready"
    /\ pc' = "done"
    /\ cur' = Deserialize(de, IdlTypes, opts, ty, Cursor(input))
    /\ UNCHANGED <<de, opts, ty, input, again, ret, idl, json_account_deserializers, added,
                 type_de_maps, threads, lock_holder>>

DeserializeTypeDef ==
    /\ pc = "ready"
    /\ ty.k = "Defined"
    /\ MapIndex(IdlTypes, ty.name) # 0
    /\ pc' = "done_def"
    /\ cur' = TypeDefDeserialize(de, IdlTypes, opts,
                                 IdlTypes[MapIndex(IdlTypes, ty.name)], Cursor(input))
    /\ UNCHANGED <<de, opts, ty, input, again, ret, idl, json_account_deserializers, added,
                 type_de_maps, threads, lock_holder>>

\* one call of a reader of the DeserializeProvider
ReadPrimitive ==
    /\ pc = "ready"
    /\ ty.k \notin {"Tuple", "Array", "Vec", "HashMap", "BTreeMap", "HashSet", "BTreeSet",
                    "Defined"}
    /\ pc' = "read"
    /\ LET r == Read(de, ty, Cursor(input))
       IN  cur' = r.s /\ ret' = [v |-> r.v]
    /\ UNCHANGED <<de, opts, ty, input, again, idl, json_account_deserializers, added,
                 type_de_maps, threads, lock_holder>>

NextDecode == DeserializeType \/ DeserializeTypeDef \/ ReadPrimitive

SpecDecode == InitDecode /\ [][NextDecode]_vars

-----------------------------------------------------------------------------
(* The policy runs: the same type and the same bytes decoded twice, each   *)
(* time on a fresh sink and a fresh cursor, under two JsonSerializationOpts.*)

PolicyTypes ==
    { Prim("U8"), Prim("U16"), Prim("U32"), Prim("U64"), Prim("U128"),
      Prim("I8"), Prim("I16"), Prim("I32"), Prim("I64"), Prim("I128"),
      Prim("Bool"), Prim("PublicKey"),
      TTuple(<<Prim("U64"), Prim("PublicKey")>>), TVec(Prim("I64")),
      TBTreeMap(Prim("U64"), Prim("Bool")), THashMap(Prim("PublicKey"), Prim("U8")),
      TOption(Prim("I128")), TCOption(Prim("PublicKey")), TCOption(Prim("U64")),
      TArray(Prim("U128"), 1), TDefined("Wide"), TDefined("Mixed") }

\* a byte, the word 1, eight zero bytes and a 32-byte key
PolicyChunks == {<<1>>, <<1, 0, 0, 0>>, Repeat(0, 8), Repeat(7, PUBKEY_BYTES)}

InitPolicy ==
    /\ type_de_maps = NoMaps /\ threads = NoThreads /\ lock_holder = Unlocked
    /\ pc = "ready"
    /\ de \in Providers
    /\ opts \in AllOpts
    /\ ty \in PolicyTypes
    /\ input \in ChunkSeqs(PolicyChunks, MaxChunks)
    /\ cur = Cursor(input)
    /\ again = NoCall
    /\ ret = NoRet
    /\ idl = NoIdl
    /\ json_account_deserializers = NoDeserializers
    /\ added = {}

DeserializeOnce ==
    /\ pc = "ready"
    /\ pc' = "once"
    /\ cur' = Deserialize(de, IdlTypes, opts, ty, Cursor(input))
    /\ UNCHANGED <<de, opts, ty, input, again, ret, idl, json_account_deserializers, added,
                 type_de_maps, threads, lock_holder>>

DeserializeAgain ==
    /\ pc = "once"
    /\ pc' = "twice"
    /\ \E o \in AllOpts :
          again' = [opts |-> o, cur |-> Deserialize(de, IdlTypes, o, ty, Cursor(input))]
    /\ UNCHANGED <<de, opts, ty, input, cur, ret, idl, json_account_deserializers, added,
                 type_de_maps, threads, lock_holder>>

NextPolicy == DeserializeOnce \/ DeserializeAgain

SpecPolicy == InitPolicy /\ [][NextPolicy]_vars

-----------------------------------------------------------------------------
(* The float runs: one call of deserialize_f32 or deserialize_f64.  The    *)
(* buffers take the bytes that decide the outcome (the two high bytes) from *)
(* values around the masks, with or without a trailing byte, and include   *)
(* buffers that are too short.                                             *)

HighBytes == {0, 15, 16, 63, 126, 127, 128, 239, 240, 241, 254, 255}
F32Buffers ==
    {<<a, 0, b, c>> \o x : a \in {0, 1}, b \in {0, 127, 128, 255}, c \in HighBytes,
                           x \in {<<>>, <<9>>}}
F64Buffers ==
    {<<a, 0, 0, 0, 0, 0, b, c>> \o x : a \in {0, 1}, b \in HighBytes, c \in HighBytes,
                                       x \in {<<>>, <<9>>}}
FloatBuffers ==
    F32Buffers \cup F64Buffers \cup {<<>>, <<0, 0, 255>>, <<0, 0, 0, 0, 0, 0, 255>>}

InitFloat ==
    /\ type_de_maps = NoMaps /\ threads = NoThreads /\ lock_holder = Unlocked
    /\ pc = "ready"
    /\ de \in Providers
    /\ opts = DefaultOpts
    /\ ty \in {Prim("F32"), Prim("F64")}
    /\ input \in FloatBuffers
    /\ cur = Cursor(input)
    /\ again = NoCall
    /\ ret = NoRet
    /\ idl = NoIdl
    /\ json_account_deserializers = NoDeserializers
    /\ added = {}

DeserializeF32 ==
    /\ pc = "ready" /\ ty = Prim("F32")
    /\ pc' = "done_f32"
    /\ LET r == deserialize_f32(Cursor(input))
       IN  cur' = r.s /\ ret' = r.v
    /\ UNCHANGED <<de, opts, ty, input, again, idl, json_account_deserializers, added,
                 type_de_maps, threads, lock_holder>>

DeserializeF64 ==
    /\ pc = "ready" /\ ty = Prim("F64")
    /\ pc' = "done_f64"
    /\ LET r == deserialize_f64(Cursor(input))
       IN  cur' = r.s /\ ret' = r.v
    /\ UNCHANGED <<de, opts, ty, input, again, idl, json_account_deserializers, added,
                 type_de_maps, threads, lock_holder>>

NextFloat == DeserializeF32 \/ DeserializeF64

SpecFloat == InitFloat /\ [][NextFloat]_vars

-----------------------------------------------------------------------------
(* The account runs: a JsonAccountsDeserializer built from an IDL          *)
(* (from_idl), then one call of deserialize_account_data or account_name   *)
(* on a blob.                                                              *)

AnchorIdl ==
    [provider |-> "Anchor",
     accounts |-> << TypeDef("VaultInfo", Struct(<<Field("flag", Prim("Bool")),
                                                   Field("n", Prim("U8"))>>)),
                     TypeDef("Config", Struct(<<Field("p", TDefined("Pair"))>>)) >>,
     types |-> IdlTypes]

AnchorIdl2 ==
    [provider |-> "Anchor",
     accounts |-> << TypeDef("Ledger", Struct(<<Field("x", Prim("U8"))>>)),
                     TypeDef("VaultInfo", Struct(<<Field("n", Prim("U8"))>>)) >>,
     types |-> <<>>]

\* the accounts A and B of the specification's example
ShankAB ==
    [provider |-> "Shank",
     accounts |-> << TypeDef("A", Struct(<<Field("a", Prim("Bool")),
                                           Field("b", Prim("Bool"))>>)),
                     TypeDef("B", Struct(<<Field("a", Prim("Bool")),
                                           Field("b", Prim("U32"))>>)) >>,
     types |-> <<>>]

\* accounts declared out of size order, two of one size, one without a
\* matcher and one that is no struct
ShankMany ==
    [provider |-> "Shank",
     accounts |-> << TypeDef("R", Struct(<<Field("n", Prim("U32")),
                                           Field("b", Prim("Bool"))>>)),
                     TypeDef("Q", Struct(<<Field("f", TCOption(Prim("U8"))),
                                           Field("g", Prim("Bool"))>>)),
                     TypeDef("T", Struct(<<Field("a", Prim("Bool")),
                                           Field("b", Prim("Bool")),
                                           Field("c", Prim("Bool"))>>)),
                     TypeDef("P", Struct(<<Field("x", Prim("Bool")),
                                           Field("y", TDefined("Unit2"))>>)),
                     TypeDef("P2", Struct(<<Field("u", Prim("U8")),
                                            Field("v", Prim("Bool"))>>)),
                     TypeDef("NoMatch", Struct(<<Field("n", Prim("U64"))>>)),
                     TypeDef("E", Enum(<<UnitVariant("X")>>)) >>,
     types |-> IdlTypes]

\* accounts with a field of unknown size before a field that gets a matcher
ShankVar ==
    [provider |-> "Shank",
     accounts |-> << TypeDef("M", Struct(<<Field("s", TCOption(Prim("String"))),
                                           Field("t", Prim("Bool"))>>)),
                     TypeDef("K", Struct(<<Field("s", Prim("String")),
                                           Field("o", TCOption(Prim("U8"))),
                                           Field("b", Prim("Bool"))>>)),
                     TypeDef("N", Struct(<<Field("a", Prim("Bool")),
                                           Field("s", Prim("String")),
                                           Field("c", Prim("Bool"))>>)) >>,
     types |-> <<>>]

Idls == {AnchorIdl, AnchorIdl2, ShankAB, ShankMany, ShankVar}

\* blobs: every sequence of the bytes 0, 1, 2 of length up to MaxBlob; and, a
\* discriminator (of an account name, declared or not), whole, cut short or
\* with its last byte changed, followed by up to two such bytes
MaxBlob == 6
RECURSIVE ByteSeqs(_)
ByteSeqs(n) ==
    IF n = 0 THEN {<<>>}
    ELSE LET prev == ByteSeqs(n - 1)
         IN  prev \cup {Append(s, b) : s \in prev, b \in {0, 1, 2}}

Tags ==
    {account_discriminator(n) : n \in {"VaultInfo", "Config", "Ledger"}}
        \cup {<<88, 29, 75, 81, 151, 160, 184, 178>>}
Blobs ==
    ByteSeqs(MaxBlob)
        \cup {d \o s : d \in Tags, s \in ByteSeqs(2)}
        \cup {Take(d, 7) \o s : d \in Tags, s \in ByteSeqs(1)}

InitAccounts ==
    /\ type_de_maps = NoMaps /\ threads = NoThreads /\ lock_holder = Unlocked
    /\ pc = "ready"
    /\ de \in Providers
    /\ opts = DefaultOpts
    /\ ty = Prim("U8")
    /\ input \in Blobs
    /\ cur = Cursor(input)
    /\ again = NoCall
    /\ ret = NoRet
    /\ idl \in Idls
    /\ json_account_deserializers = NoDeserializers
    /\ added = {}

\* JsonAccountsDeserializer::deserialize_account_data, PrefixDiscriminator arm
PrefixDeserialize ==
    /\ pc = "ready" /\ idl.provider = "Anchor"
    /\ pc' = "done_prefix"
    /\ cur' = PrefixDeserializeAccountData(de, idl.accounts, idl.types, opts, input)
    /\ UNCHANGED <<de, opts, ty, input, again, ret, idl, json_account_deserializers, added,
                 type_de_maps, threads, lock_holder>>

\* JsonAccountsDeserializer::deserialize_account_data, MatchDiscriminator arm
MatchDeserialize ==
    /\ pc = "ready" /\ idl.provider # "Anchor"
    /\ pc' = "done_match"
    /\ cur' = MatchDeserializeAccountData(de, idl.accounts, idl.types, opts, input)
    /\ UNCHANGED <<de, opts, ty, input, again, ret, idl, json_account_deserializers, added,
                 type_de_maps, threads, lock_holder>>

\* JsonAccountsDeserializer::account_name, MatchDiscriminator arm
MatchAccountName ==
    /\ pc = "ready" /\ idl.provider # "Anchor"
    /\ pc' = "done_name"
    /\ ret' = find_match_name(MatchDiscriminatorsFrom(idl.accounts, SomeTypeMap(idl.types)),
                              input)
    /\ UNCHANGED <<de, opts, ty, input, again, cur, idl, json_account_deserializers, added,
                 type_de_maps, threads, lock_holder>>

NextAccounts == PrefixDeserialize \/ MatchDeserialize \/ MatchAccountName

SpecAccounts == InitAccounts /\ [][NextAccounts]_vars

-----------------------------------------------------------------------------
(* The ChainparserDeserializer facade: the registry of per-id account      *)
(* decoders and the calls that fill it.  An Idl is reduced to its name and *)
(* its metadata.serializer label; an IDL JSON text to whether serde parses *)
(* it and the Idl it then yields; on-chain account data to its length,     *)
(* whether bytes 44.. are a zlib stream and the JSON text they inflate to. *)

ApiIdl(name, serializer) == [name |-> name, serializer |-> serializer]
NoApiIdl == ApiIdl("none", "none")
\* no label, the "spl" label, and a label no deserializer exists for
ApiIdls == {ApiIdl("A", "none"), ApiIdl("B", "spl"), ApiIdl("C", "bincode")}

IdlJson(parses, d) == [parses |-> parses, idl |-> d]
IdlJsons == {IdlJson(TRUE, d) : d \in ApiIdls} \cup {IdlJson(FALSE, NoApiIdl)}

IDL_PROVIDERS == <<"Anchor", "Shank">>
IdlProviders == {IDL_PROVIDERS[i] : i \in DOMAIN IDL_PROVIDERS}
ANCHOR_SEED == "anchor:idl"
SHANK_SEED == "shank:idl"
IDL_HEADER_SIZE == 44

\* results of the facade's calls: Ok(()), Ok(Some(provider)), Ok(None),
\* Err(e), or a panic
Res(k, v, err) == [k |-> k, v |-> v, err |-> err]
OkUnit == Res("Ok", "unit", "none")
OkSome(p) == Res("Ok", p, "none")
OkNone == Res("Ok", "None", "none")
ErrRes(e) == Res("Err", "none", e)
PanicRes == Res("panic", "none", "range start index out of range")

DeserializeProviderTryFrom(d) ==
    LET label == IF d.serializer = "none" THEN "borsh" ELSE d.serializer
    IN  IF label \in {"borsh", "spl"}
        THEN [res |-> OkUnit, de_provider |-> label]
        ELSE [res |-> ErrRes("UnsupportedDeserializer"), de_provider |-> "none"]

from_idl(d, de_provider, provider) ==
    [k |-> "some", idl |-> d, de_provider |-> de_provider,
     discriminator |-> IF provider = "Anchor" THEN "PrefixDiscriminator"
                       ELSE "MatchDiscriminator"]

try_from_idl(json, provider) ==
    IF ~json.parses THEN [res |-> ErrRes("ParseJsonError"), de |-> Absent]
    ELSE LET r == DeserializeProviderTryFrom(json.idl)
         IN  IF r.res.k = "Err" THEN [res |-> r.res, de |-> Absent]
             ELSE [res |-> OkUnit, de |-> from_idl(json.idl, r.de_provider, provider)]

add_idl_json_forgets_on_error(map, id, idl_json, provider) ==
    LET r == try_from_idl(idl_json, provider)
    IN  [res |-> r.res, map |-> [map EXCEPT ![id] = r.de]]

add_idl_json(map, id, idl_json, provider) ==
    LET r == try_from_idl(idl_json, provider)
    IN  IF r.res.k = "Err" THEN [res |-> r.res, map |-> map]
        ELSE [res |-> OkUnit, map |-> [map EXCEPT ![id] = r.de]]

add_idl(map, id, d, provider) ==
    LET r == DeserializeProviderTryFrom(d)
    IN  IF r.res.k = "Err" THEN [res |-> r.res, map |-> map]
        ELSE [res |-> OkUnit,
              map |-> [map EXCEPT ![id] = from_idl(d, r.de_provider, provider)]]

has_idl(map, id) == map[id] # Absent
added_idls(map) == {id \in DOMAIN map : map[id] # Absent}

\* a program id: its base58 text, and whether Pubkey::create_with_seed
\* accepts it as the owner of a derived address
ProgramId(key, derivable) == [key |-> key, derivable |-> derivable]
ProgramIds ==
    {ProgramId("Prog1", TRUE), ProgramId("Prog3", FALSE)}
to_string(program_id) == program_id.key

NoAccount == [k |-> "none", len |-> 0, zlib |-> FALSE, json |-> IdlJson(FALSE, NoApiIdl)]
Account(len, zlib, json) == [k |-> "account", len |-> len, zlib |-> zlib, json |-> json]
\* no account; ten bytes; a bare header; a header followed by a zlib stream
AccountStates ==
    {NoAccount,
     Account(10, FALSE, IdlJson(FALSE, NoApiIdl)),
     Account(IDL_HEADER_SIZE, FALSE, IdlJson(FALSE, NoApiIdl))}
        \cup {Account(100, TRUE, j) : j \in IdlJsons}
\* an AccountProvider, restricted to the two derived addresses of the
\* program asked about
AccountProviders == [{ANCHOR_SEED, SHANK_SEED} -> AccountStates]
NoAccounts == [s \in {ANCHOR_SEED, SHANK_SEED} |-> NoAccount]
get_account(account_provider, address) == account_provider[address.seed]

try_idl_address(provider, program_id) ==
    LET seed == IF provider = "Anchor" THEN ANCHOR_SEED ELSE SHANK_SEED
    IN  IF program_id.derivable
        THEN [res |-> OkUnit, key |-> [seed |-> seed, owner |-> program_id.key]]
        ELSE [res |-> ErrRes("IdlPubkeyError"), key |-> [seed |-> seed, owner |-> "none"]]

decode_idl_data(data) ==
    IF ~data.zlib
    THEN [res |-> ErrRes("IdlContainerShouldContainZlibData"), idl |-> NoApiIdl]
    ELSE IF ~data.json.parses
    THEN [res |-> ErrRes("ParseIdlError"), idl |-> NoApiIdl]
    ELSE [res |-> OkUnit, idl |-> data.json.idl]

decode_idl_account_data(account_data) ==
    IF account_data.len < IDL_HEADER_SIZE
    THEN [res |-> PanicRes, idl |-> NoApiIdl]
    ELSE decode_idl_data(account_data)

try_find_idl_for_program(account_provider, program_id, idl_provider) ==
    LET a == try_idl_address(idl_provider, program_id)
    IN  IF a.res.k = "Err" THEN [res |-> a.res, idl |-> NoApiIdl]
        ELSE LET account == get_account(account_provider, a.key)
             IN  IF account.k = "none" THEN [res |-> OkNone, idl |-> NoApiIdl]
                 ELSE LET r == decode_idl_account_data(account)
                      IN  IF r.res.k # "Ok" THEN r
                          ELSE [res |-> OkSome(idl_provider), idl |-> r.idl]

RECURSIVE ProvidersLoop(_, _, _, _)
ProvidersLoop(map, account_provider, program_id, i) ==
    IF i > Len(IDL_PROVIDERS) THEN [res |-> OkNone, map |-> map]
    ELSE LET idl_provider == IDL_PROVIDERS[i]
             f == try_find_idl_for_program(account_provider, program_id, idl_provider)
         IN  IF f.res.k # "Ok" THEN [res |-> f.res, map |-> map]
             ELSE IF f.res = OkNone
             THEN ProvidersLoop(map, account_provider, program_id, i + 1)
             ELSE LET r == add_idl(map, to_string(program_id), f.idl, idl_provider)
                  IN  IF r.res.k = "Err" THEN [res |-> r.res, map |-> map]
                      ELSE [res |-> OkSome(idl_provider), map |-> r.map]

try_add_idl_for_program(map, account_provider, program_id) ==
    ProvidersLoop(map, account_provider, program_id, 1)

NoApiCall ==
    [op |-> "none", id |-> "none", provider |-> "none", arg |-> NoApiIdl,
     res |-> OkNone, before |-> NoDeserializers]
ApiCall(op, id, provider, arg, res, before) ==
    [op |-> op, id |-> id, provider |-> provider, arg |-> arg,
     res |-> res, before |-> before]

InitApi ==
    /\ type_de_maps = NoMaps /\ threads = NoThreads /\ lock_holder = Unlocked
    /\ pc = "ready"
    /\ de = "borsh"
    /\ opts = DefaultOpts
    /\ ty = Prim("U8")
    /\ input = <<>>
    /\ cur = Cursor(<<>>)
    /\ again = NoCall
    /\ ret = NoApiCall
    /\ idl = NoIdl
    /\ json_account_deserializers = NoDeserializers
    /\ added = {}

AddIdl ==
    /\ pc = "ready"
    /\ \E id \in Ids, d \in ApiIdls, provider \in IdlProviders :
          LET r == add_idl(json_account_deserializers, id, d, provider)
          IN  /\ json_account_deserializers' = r.map
              /\ added' = IF r.res.k = "Ok" THEN added \cup {id} ELSE added
              /\ ret' = ApiCall("add_idl", id, provider, d, r.res,
                                json_account_deserializers)
    /\ UNCHANGED <<pc, de, opts, ty, input, cur, again, idl,
                 type_de_maps, threads, lock_holder>>

AddIdlJson ==
    /\ pc = "ready"
    /\ \E id \in Ids, idl_json \in IdlJsons, provider \in IdlProviders :
          LET r == add_idl_json(json_account_deserializers, id, idl_json, provider)
          IN  /\ json_account_deserializers' = r.map
              /\ added' = IF r.res.k = "Ok" THEN added \cup {id} ELSE added
              /\ ret' = ApiCall("add_idl_json", id, provider, idl_json, r.res,
                                json_account_deserializers)
    /\ UNCHANGED <<pc, de, opts, ty, input, cur, again, idl,
                 type_de_maps, threads, lock_holder>>

\* a panic unwinds out of the call and ends the run
TryAddIdlForProgram ==
    /\ pc = "ready"
    /\ \E program_id \in ProgramIds :
       \E account_provider \in
            IF program_id.derivable THEN AccountProviders ELSE {NoAccounts} :
          LET r == try_add_idl_for_program(json_account_deserializers,
                                           account_provider, program_id)
          IN  /\ json_account_deserializers' = r.map
              /\ added' = IF r.res.k = "Ok" /\ r.res # OkNone
                          THEN added \cup {to_string(program_id)} ELSE added
              /\ ret' = ApiCall("try_add_idl_for_program", to_string(program_id),
                                "none", account_provider, r.res,
                                json_account_deserializers)
              /\ pc' = IF r.res.k = "panic" THEN "aborted" ELSE "ready"
    /\ UNCHANGED <<de, opts, ty, input, cur, again, idl,
                 type_de_maps, threads, lock_holder>>

NextApi == AddIdl \/ AddIdlJson \/ TryAddIdlForProgram

SpecApi == InitApi /\ [][NextApi]_vars

-----------------------------------------------------------------------------
(* The registry runs: JsonAccountsDeserializer::from_idl registers the     *)
(* IDL's type definitions one after the other, in the order of idl.types;  *)
(* a type is then decoded, and decoded again after the same definitions    *)
(* were registered in another order.                                       *)

\* Pair; Nest, which refers to Pair and Unit2; Unit2; and Ghost, which refers
\* to a name that no definition has
RegTypes ==
    << IdlTypes[2], IdlTypes[1], IdlTypes[3],
       TypeDef("Ghost", Struct(<<Field("x", Prim("U8")),
                                 Field("g", TDefined("Missing"))>>)) >>

\* every order of the definitions of a list
Orders(defs) ==
    LET n == Len(defs)
        bij == {f \in [1..n -> 1..n] : \A i, j \in 1..n : f[i] = f[j] => i = j}
    IN  {[i \in 1..n |-> defs[f[i]]] : f \in bij}

RegDecodeTypes ==
    { TDefined("Pair"), TDefined("Nest"), TDefined("Unit2"), TDefined("Ghost"),
      TDefined("Missing"), TOption(TDefined("Pair")),
      TTuple(<<TDefined("Unit2"), TDefined("Pair")>>) }

MaxRegBytes == 3

InitRegistry ==
    /\ type_de_maps = NoMaps /\ threads = NoThreads /\ lock_holder = Unlocked
    /\ pc = "ready"
    /\ de \in Providers
    /\ opts = DefaultOpts
    /\ ty \in RegDecodeTypes
    /\ input \in ByteSeqs(MaxRegBytes)
    /\ cur = Cursor(input)
    /\ again = NoCall
    /\ ret = NoRet
    /\ idl \in {[provider |-> "Shank", accounts |-> <<>>, types |-> order] :
                  order \in Orders(RegTypes)}
    /\ json_account_deserializers = NoDeserializers
    /\ added = {}

DeserializeRegistered ==
    /\ pc = "ready"
    /\ pc' = "once"
    /\ cur' = Deserialize(de, idl.types, opts, ty, Cursor(input))
    /\ UNCHANGED <<de, opts, ty, input, again, ret, idl, json_account_deserializers, added,
                 type_de_maps, threads, lock_holder>>

DeserializeReordered ==
    /\ pc = "once"
    /\ pc' = "twice"
    /\ \E order \in Orders(RegTypes) :
          /\ again' = [opts |-> opts, cur |-> Deserialize(de, order, opts, ty, Cursor(input))]
          /\ ret' = order
    /\ UNCHANGED <<de, opts, ty, input, cur, idl, json_account_deserializers, added,
                 type_de_maps, threads, lock_holder>>

NextRegistry == DeserializeRegistered \/ DeserializeReordered

SpecRegistry == InitRegistry /\ [][NextRegistry]_vars

-----------------------------------------------------------------------------
(* The classification runs: a ChainparserDeserializer holding one IDL      *)
(* under the id "Prog1" is asked for the account name of a blob, and then  *)
(* to decode the same blob under the same id.                              *)

NoName == [st |-> "ok", some |-> FALSE, name |-> ""]

\* PrefixDiscriminator::account_name: account_names.get(discriminator)
PrefixAccountName(accounts, discriminator) ==
    LET i == PrefixGet(accounts, discriminator)
    IN  IF i = 0 THEN NoName
        ELSE [st |-> "ok", some |-> TRUE, name |-> accounts[i].name]

\* JsonAccountsDeserializer::account_name
JsonAccountName(deserializer, account_data) ==
    IF deserializer.discriminator = "PrefixDiscriminator"
    THEN IF Len(account_data) < 8 THEN NoName
         ELSE PrefixAccountName(deserializer.idl.accounts, Take(account_data, 8))
    ELSE find_match_name(MatchDiscriminatorsFrom(deserializer.idl.accounts,
                                                 SomeTypeMap(deserializer.idl.types)),
                         account_data)

\* ChainparserDeserializer::account_name
account_name(map, id, account_data) ==
    IF id \notin DOMAIN map \/ map[id] = Absent THEN NoName
    ELSE JsonAccountName(map[id], account_data)

\* JsonAccountsDeserializer::deserialize_account_data
deserialize_account_data(deserializer, o, account_data) ==
    IF deserializer.discriminator = "PrefixDiscriminator"
    THEN PrefixDeserializeAccountData(deserializer.de_provider, deserializer.idl.accounts,
                                      deserializer.idl.types, o, account_data)
    ELSE MatchDeserializeAccountData(deserializer.de_provider, deserializer.idl.accounts,
                                     deserializer.idl.types, o, account_data)

\* ChainparserDeserializer::deserialize_account_to_json
deserialize_account_to_json(map, id, o, account_data) ==
    IF id \notin DOMAIN map \/ map[id] = Absent
    THEN Fail(Cursor(account_data),
              [kind |-> "CannotFindAccountDeserializerForProgramId", name |-> id])
    ELSE deserialize_account_data(map[id], o, account_data)

UnknownAccountErr(acc_name) == [kind |-> "UnknownAccount", name |-> acc_name]

\* PrefixDiscriminator::deserialize_account_data_by_name
PrefixDeserializeAccountDataByName(d, accounts, tm, o, acc_name, account_data) ==
    LET discriminator == account_discriminator(acc_name)
        i == PrefixGet(accounts, discriminator)
    IN  IF i = 0 THEN Fail(Cursor(account_data), UnknownAccountErr(acc_name))
        ELSE TypeDefDeserialize(d, tm, o, accounts[i], Cursor(account_data))

\* MatchDiscriminator::deserialize_account_data_by_name; deserializer_by_name
\* holds one decoder for each discriminator that MatchDiscriminator::new built
MatchDeserializeAccountDataByName(d, accounts, tm, o, acc_name, account_data) ==
    LET discs == MatchDiscriminatorsFrom(accounts, SomeTypeMap(tm))
        hits == {i \in 1..Len(discs) : discs[i].account.name = acc_name}
    IN  IF hits = {} THEN Fail(Cursor(account_data), UnknownAccountErr(acc_name))
        ELSE LET i == CHOOSE i \in hits : \A j \in hits : j <= i
             IN  TypeDefDeserialize(d, tm, o, discs[i].account, Cursor(account_data))

\* JsonAccountsDeserializer::deserialize_account_data_by_name
deserialize_account_data_by_name(deserializer, o, acc_name, account_data) ==
    IF deserializer.discriminator = "PrefixDiscriminator"
    THEN PrefixDeserializeAccountDataByName(deserializer.de_provider,
             deserializer.idl.accounts, deserializer.idl.types, o, acc_name, account_data)
    ELSE MatchDeserializeAccountDataByName(deserializer.de_provider,
             deserializer.idl.accounts, deserializer.idl.types, o, acc_name, account_data)

\* ChainparserDeserializer::deserialize_account_to_json_by_name
deserialize_account_to_json_by_name(map, id, name, o, account_data) ==
    IF id \notin DOMAIN map \/ map[id] = Absent
    THEN Fail(Cursor(account_data),
              [kind |-> "CannotFindAccountDeserializerForProgramId", name |-> id])
    ELSE deserialize_account_data_by_name(map[id], o, name, account_data)

\* the account names asked for: those the IDL declares and some it does not
AccountNames(d) ==
    IF d.provider = "Anchor" THEN {"VaultInfo", "Config", "Ledger"}
    ELSE {d.accounts[i].name : i \in 1..Len(d.accounts)} \cup {"A", "NoMatch", "Ghost"}

InitClassify ==
    /\ type_de_maps = NoMaps /\ threads = NoThreads /\ lock_holder = Unlocked
    /\ pc = "ready"
    /\ de \in Providers
    /\ opts = DefaultOpts
    /\ ty = Prim("U8")
    /\ input \in Blobs
    /\ cur = Cursor(input)
    /\ again = NoCall
    /\ ret = [id |-> "none"] @@ NoName
    /\ idl \in Idls
    /\ json_account_deserializers
          = [NoDeserializers EXCEPT !["Prog1"] = from_idl(idl, de, idl.provider)]
    /\ added = {"Prog1"}

AccountName ==
    /\ pc = "ready"
    /\ pc' = "named"
    /\ \E id \in {"Prog1", "Prog2"} :
          ret' = [id |-> id] @@ account_name(json_account_deserializers, id, input)
    /\ UNCHANGED <<de, opts, ty, input, cur, again, idl, json_account_deserializers, added,
                 type_de_maps, threads, lock_holder>>

\* the same blob decoded under the same id
DeserializeAccountToJson ==
    /\ pc = "named"
    /\ pc' = "decoded"
    /\ cur' = deserialize_account_to_json(json_account_deserializers, ret.id, opts, input)
    /\ UNCHANGED <<de, opts, ty, input, again, ret, idl, json_account_deserializers, added,
                 type_de_maps, threads, lock_holder>>

\* the blob decoded as the account of a given name
DeserializeAccountToJsonByName ==
    /\ pc = "ready"
    /\ pc' = "decoded_by_name"
    /\ \E name \in AccountNames(idl) :
          /\ ret' = [id |-> "Prog1", st |-> "ok", some |-> TRUE, name |-> name]
          /\ cur' = deserialize_account_to_json_by_name(json_account_deserializers, "Prog1",
                                                        name, opts, input)
    /\ UNCHANGED <<de, opts, ty, input, again, idl, json_account_deserializers, added,
                 type_de_maps, threads, lock_holder>>

NextClassify == AccountName \/ DeserializeAccountToJson \/ DeserializeAccountToJsonByName

SpecClassify == InitClassify /\ [][NextClassify]_vars

-----------------------------------------------------------------------------
(* A standard JSON reader (RFC 8259) over the sink's tokens, with the bare *)
(* NaN token accepted as a value.  Positions are 1-based; a parser answers *)
(* the position after what it read, or 0 when the text is not JSON.        *)

IsQuote(tok) == tok.c = "\"" \/ (tok.c = "chr" /\ tok.v = <<34>>)
IsCtl(tok) == tok.c = "chr" /\ tok.v[1] < 32
IsBackslash(tok) == tok.c = "chr" /\ tok.v = <<92>>
IsEscapable(tok) == tok.c = "chr" /\ tok.v[1] \in {34, 92, 47, 98, 102, 110, 114, 116}
IsScalar(tok) == tok.c \in {"int", "float", "true", "false", "null", "NaN"}

RECURSIVE SkipWs(_, _)
SkipWs(t, i) == IF i >= 1 /\ i <= Len(t) /\ t[i].c = " " THEN SkipWs(t, i + 1) ELSE i

\* the characters of a string from position i on, up to its closing quote
RECURSIVE StringBody(_, _)
StringBody(t, i) ==
    IF i > Len(t) THEN 0
    ELSE IF IsBackslash(t[i])
         THEN IF i + 1 <= Len(t) /\ IsEscapable(t[i + 1]) THEN StringBody(t, i + 2) ELSE 0
    ELSE IF IsQuote(t[i]) THEN i + 1
    ELSE IF IsCtl(t[i]) THEN 0
    ELSE StringBody(t, i + 1)

ParseString(t, i) ==
    IF i >= 1 /\ i <= Len(t) /\ IsQuote(t[i]) THEN StringBody(t, i + 1) ELSE 0

RECURSIVE ParseValue(_, _), ParseElems(_, _), ParseMembers(_, _)

ParseValue(t, i0) ==
    LET i == SkipWs(t, i0)
    IN  IF i < 1 \/ i > Len(t) THEN 0
        ELSE CASE IsScalar(t[i]) -> i + 1
               [] IsQuote(t[i]) -> ParseString(t, i)
               [] t[i].c = "[" ->
                    LET j == SkipWs(t, i + 1)
                    IN  IF j <= Len(t) /\ t[j].c = "]" THEN j + 1 ELSE ParseElems(t, j)
               [] t[i].c = "{" ->
                    LET j == SkipWs(t, i + 1)
                    IN  IF j <= Len(t) /\ t[j].c = "}" THEN j + 1 ELSE ParseMembers(t, j)
               [] OTHER -> 0

\* a "list" token is one or more numbers with their separators
ParseElems(t, i) ==
    LET v == IF i >= 1 /\ i <= Len(t) /\ t[i].c = "list" THEN i + 1 ELSE ParseValue(t, i)
        j == SkipWs(t, v)
    IN  IF v = 0 \/ j > Len(t) THEN 0
        ELSE IF t[j].c = "," THEN ParseElems(t, j + 1)
        ELSE IF t[j].c = "]" THEN j + 1
        ELSE 0

ParseMembers(t, i0) ==
    LET i == SkipWs(t, i0)
        k == ParseString(t, i)
        c == SkipWs(t, k)
    IN  IF k = 0 \/ c > Len(t) \/ t[c].c # ":" THEN 0
        ELSE LET v == ParseValue(t, c + 1)
                 j == SkipWs(t, v)
             IN  IF v = 0 \/ j > Len(t) THEN 0
                 ELSE IF t[j].c = "," THEN ParseMembers(t, j + 1)
                 ELSE IF t[j].c = "}" THEN j + 1
                 ELSE 0

WellFormedJson(t) ==
    LET e == ParseValue(t, 1)
    IN  e # 0 /\ SkipWs(t, e) = Len(t) + 1

-----------------------------------------------------------------------------
(* The wire format's widths, stated on their own: the number of bytes the  *)
(* encoding of a value of type t occupies at the front of buf, as the sum  *)
(* of its tags, length prefixes and primitives.  A result larger than      *)
(* Len(buf) says that buf does not hold a whole value.                     *)

RECURSIVE EncodedWidth(_, _, _), CountWidth(_, _, _, _), SeqWidth(_, _, _, _)

\* n values of type t one after the other
CountWidth(tm, t, n, buf) ==
    IF n = 0 THEN 0
    ELSE LET w == EncodedWidth(tm, t, buf)
         IN  IF w > Len(buf) THEN w ELSE w + CountWidth(tm, t, n - 1, Drop(buf, w))

\* values of the types ts[i..] one after the other
SeqWidth(tm, ts, i, buf) ==
    IF i > Len(ts) THEN 0
    ELSE LET w == EncodedWidth(tm, ts[i], buf)
         IN  IF w > Len(buf) THEN w ELSE w + SeqWidth(tm, ts, i + 1, Drop(buf, w))

FieldTypes(fields) == [i \in 1..Len(fields) |-> fields[i].ty]

EncodedWidth(tm, t, buf) ==
    CASE t.k \in {"U8", "I8", "Bool"} -> 1
      [] t.k \in {"U16", "I16"} -> 2
      [] t.k \in {"U32", "I32", "F32"} -> 4
      [] t.k \in {"U64", "I64", "F64"} -> 8
      [] t.k \in {"U128", "I128"} -> 16
      [] t.k = "PublicKey" -> 32
      [] t.k \in {"String", "Bytes"} ->
            IF Len(buf) < 4 THEN 4 ELSE 4 + LE(Take(buf, 4))
      [] t.k = "Tuple" -> SeqWidth(tm, t.inners, 1, buf)
      [] t.k = "Array" -> CountWidth(tm, t.inner, t.len, buf)
      [] t.k \in {"Vec", "HashSet", "BTreeSet"} ->
            IF Len(buf) < 4 THEN 4
            ELSE 4 + CountWidth(tm, t.inner, LE(Take(buf, 4)), Drop(buf, 4))
      [] t.k \in {"HashMap", "BTreeMap"} ->
            IF Len(buf) < 4 THEN 4
            ELSE 4 + CountWidth(tm, TTuple(<<t.inner1, t.inner2>>),
                                LE(Take(buf, 4)), Drop(buf, 4))
      [] t.k = "Option" ->
            IF Len(buf) < 1 \/ buf[1] = 0 THEN 1
            ELSE 1 + EncodedWidth(tm, t.inner, Drop(buf, 1))
      [] t.k = "COption" ->
            IF Len(buf) < 4 THEN 4
            ELSE IF Take(buf, 4) = <<1, 0, 0, 0>>
                 THEN 4 + EncodedWidth(tm, t.inner, Drop(buf, 4))
                 ELSE LET n == idl_type_bytes(t.inner, SomeTypeMap(tm))
                      IN  IF n = NoSize THEN Len(buf) + 1 ELSE 4 + n
      [] t.k = "Defined" ->
            LET i == MapIndex(tm, t.name)
            IN  IF i = 0 THEN Len(buf) + 1
                ELSE IF tm[i].ty.k = "Struct"
                THEN SeqWidth(tm, FieldTypes(tm[i].ty.fields), 1, buf)
                ELSE IF Len(buf) < 1 \/ buf[1] + 1 > Len(tm[i].ty.variants) THEN 1
                ELSE LET f == tm[i].ty.variants[buf[1] + 1].fields
                     IN  CASE f.k = "Named" ->
                                1 + SeqWidth(tm, FieldTypes(f.fields), 1, Drop(buf, 1))
                           [] f.k = "Tuple" -> 1 + SeqWidth(tm, f.types, 1, Drop(buf, 1))
                           [] OTHER -> 1

\* the bytes the call has taken from the front of the caller's buffer
Consumed == Len(input) - Len(cur.buf)
Decoded == pc \in {"done", "done_def"}

\* C1: a successful decode of a type, or of a registered type definition,
\* advances the cursor by exactly the encoded width of the value at the front
\* of the buffer, which lies within the buffer, and leaves the cursor on the
\* rest of the caller's bytes.
C1_CursorAdvancesByWidth ==
    (Decoded /\ cur.st = "ok") =>
        /\ Consumed = EncodedWidth(IdlTypes, ty, input)
        /\ Consumed <= Len(input)
        /\ cur.buf = Drop(input, Consumed)

\* a successful decode of a value made of a length prefix and primitives, with
\* bytes left over: a one-element vector of Pair { a: bool, b: u8 }, 6 bytes
C1_Witness ==
    /\ pc = "done" /\ cur.st = "ok"
    /\ ty = TVec(TDefined("Pair"))
    /\ Consumed = 6
    /\ Len(cur.buf) > 0

\* C2: when the size oracle knows the size n of the type, a successful decode
\* consumes exactly n bytes.
C2_OracleSizeIsConsumed ==
    (Decoded /\ cur.st = "ok" /\ idl_type_bytes(ty, SomeTypeMap(IdlTypes)) # NoSize) =>
        Consumed = idl_type_bytes(ty, SomeTypeMap(IdlTypes))

\* a successful decode of an absent COption<bool> inside an array: the padding
\* is skipped
C2_Witness ==
    /\ pc = "done" /\ cur.st = "ok"
    /\ ty = TArray(TCOption(Prim("Bool")), 2)
    /\ Take(input, 4) = <<0, 0, 0, 0>>
    /\ Consumed = 10

-----------------------------------------------------------------------------
(* C5: well-formedness of the text written *)

\* no character of a decoded string is one that JSON requires to be escaped
NoCharToEscape(out) ==
    \A i \in 1..Len(out) :
        out[i].c = "chr" => (out[i].v[1] >= 32 /\ out[i].v[1] \notin {34, 92})

\* the types inside a type definition
DefTypes(def) ==
    IF def.ty.k = "Struct"
    THEN {def.ty.fields[i].ty : i \in 1..Len(def.ty.fields)}
    ELSE UNION { LET f == def.ty.variants[i].fields
                 IN  CASE f.k = "Named" -> {f.fields[j].ty : j \in 1..Len(f.fields)}
                       [] f.k = "Tuple" -> {f.types[j] : j \in 1..Len(f.types)}
                       [] OTHER -> {}
                 : i \in 1..Len(def.ty.variants) }

\* the rendering of every value of type t holds no quotation mark
RECURSIVE QuoteFree(_, _)
QuoteFree(t, o) ==
    CASE t.k \in {"U8", "U16", "U32", "U64", "U128",
                  "I8", "I16", "I32", "I64", "I128"} -> ~IntQuoted(t.k, o)
      [] t.k \in {"F32", "F64", "Bool", "Bytes"} -> TRUE
      [] t.k = "PublicKey" -> ~o.pubkey_as_base58
      [] t.k = "Tuple" -> \A i \in 1..Len(t.inners) : QuoteFree(t.inners[i], o)
      [] t.k \in {"Array", "Vec", "HashSet", "BTreeSet", "Option", "COption"} ->
            QuoteFree(t.inner, o)
      [] OTHER -> FALSE

\* every map inside the type tree of t has a key type that renders without
\* a quotation mark (tm holds no cyclic definitions)
RECURSIVE PlainMapKeys(_, _, _)
PlainMapKeys(tm, t, o) ==
    CASE t.k \in {"HashMap", "BTreeMap"} ->
            QuoteFree(t.inner1, o) /\ PlainMapKeys(tm, t.inner2, o)
      [] t.k = "Tuple" -> \A i \in 1..Len(t.inners) : PlainMapKeys(tm, t.inners[i], o)
      [] t.k \in {"Array", "Vec", "HashSet", "BTreeSet", "Option", "COption"} ->
            PlainMapKeys(tm, t.inner, o)
      [] t.k = "Defined" ->
            LET i == MapIndex(tm, t.name)
            IN  i # 0 => \A ft \in DefTypes(tm[i]) : PlainMapKeys(tm, ft, o)
      [] OTHER -> TRUE

\* C5 as stated: on every successful decode the text written to the sink is
\* well-formed JSON, the bare NaN token being the only exception.
C5_OutputIsJson ==
    (Decoded /\ cur.st = "ok") => WellFormedJson(cur.out)

\* C5 amended: on every successful decode in which no decoded string holds a
\* character that JSON requires to be escaped, and of a type whose map key
\* types all render without a quotation mark, the text written is well-formed
\* JSON, the bare NaN token being the only exception.
C5_OutputIsJsonWhenPlain ==
    (/\ Decoded /\ cur.st = "ok"
     /\ NoCharToEscape(cur.out)
     /\ PlainMapKeys(IdlTypes, ty, opts)) => WellFormedJson(cur.out)

\* a successful decode of a map with one entry under a plain key
C5_Witness ==
    /\ pc = "done" /\ cur.st = "ok"
    /\ ty = THashMap(Prim("U8"), Prim("Bool"))
    /\ Take(input, 4) = <<1, 0, 0, 0>>
    /\ Consumed = 6
    /\ WellFormedJson(cur.out)

-----------------------------------------------------------------------------
(* C6, C7: the serialization policies *)

\* The text with what policy o contributes taken back: the quotes o puts
\* around a 64/128-bit integer are removed, and a quoted base58 key becomes
\* the bracketed list of its bytes.
RECURSIVE Canon(_, _, _)
Canon(out, i, o) ==
    IF i > Len(out) THEN <<>>
    ELSE IF /\ i + 2 <= Len(out)
            /\ out[i] = QUOTE /\ out[i + 2] = QUOTE
            /\ out[i + 1].c = "int"
            /\ \/ out[i + 1].s \in {"U64", "I64"} /\ o.n64_as_string
               \/ out[i + 1].s \in {"U128", "I128"} /\ o.n128_as_string
         THEN <<out[i + 1]>> \o Canon(out, i + 3, o)
    ELSE IF /\ i + 2 <= Len(out)
            /\ out[i] = QUOTE /\ out[i + 2] = QUOTE
            /\ out[i + 1].c = "b58"
         THEN <<Tok("[")>> \o JoinBytes(out[i + 1].v) \o <<Tok("]")>>
              \o Canon(out, i + 3, o)
    ELSE <<out[i]>> \o Canon(out, i + 1, o)

\* C6: decoding the same type and bytes under any two policies ends the same
\* way (success, the same error, or the same abort), leaves the cursor at the
\* same place, and writes texts that are equal once the quotes around
\* 64/128-bit integers and the rendering of public keys are taken back.
C6_PolicyIndependentReading ==
    pc = "twice" =>
        /\ again.cur.st = cur.st
        /\ again.cur.err = cur.err
        /\ again.cur.buf = cur.buf
        /\ Canon(again.cur.out, 1, again.opts) = Canon(cur.out, 1, opts)

\* a struct of a u64 and a public key decoded with success under the default
\* policy and under its opposite, with different texts
C6_Witness ==
    /\ pc = "twice" /\ ty = TDefined("Wide")
    /\ cur.st = "ok" /\ again.cur.st = "ok"
    /\ opts = DefaultOpts /\ again.opts = Opts(FALSE, TRUE, TRUE)
    /\ again.cur.out # cur.out
    /\ Len(input) - Len(cur.buf) = 40

IsInt(t) == t.k \in {"U8", "U16", "U32", "U64", "U128", "I8", "I16", "I32", "I64", "I128"}

\* C7: a decoded u64/i64 is written between quotes iff n64_as_string is set, a
\* u128/i128 iff n128_as_string is set, each flag leaving the other width
\* alone; a narrower integer is never quoted; under the default policy every
\* integer is written bare.
C7_WideIntegerQuoting ==
    (pc = "once" /\ IsInt(ty) /\ cur.st = "ok") =>
        LET n == IntTok(ty.k, Take(input, Len(input) - Len(cur.buf)))
            quoted == \/ ty.k \in {"U64", "I64"} /\ opts.n64_as_string
                      \/ ty.k \in {"U128", "I128"} /\ opts.n128_as_string
        IN  /\ cur.out = IF quoted THEN <<QUOTE, n, QUOTE>> ELSE <<n>>
            /\ (opts = DefaultOpts => cur.out = <<n>>)

\* a u128 left bare while n64_as_string alone is set
C7_Witness ==
    /\ pc = "once" /\ ty = Prim("U128") /\ cur.st = "ok"
    /\ opts = Opts(TRUE, TRUE, FALSE)
    /\ Len(cur.out) = 1

-----------------------------------------------------------------------------
(* C8: NaN detection *)

\* C8: on a buffer of at least 4 bytes deserialize_f32 returns NaN and
\* advances by exactly 4 when the low 7 bits of byte 3 are all set, and
\* otherwise returns what the standard decode returns, which is not NaN; on a
\* buffer of at least 8 bytes deserialize_f64 returns NaN and advances by
\* exactly 8 when the high 4 bits of byte 6 and the low 7 bits of byte 7 are
\* all set, and otherwise returns what the standard decode returns, which is
\* not NaN.
C8_NanDetection ==
    /\ (pc = "done_f32" /\ Len(input) >= 4) =>
          IF input[4] % 128 = 127
          THEN cur.st = "ok" /\ ret.class = "nan" /\ cur.buf = Drop(input, 4)
          ELSE /\ [s |-> cur, v |-> ret] = BorshF32(Cursor(input))
               /\ cur.st = "ok" /\ ret.class # "nan"
    /\ (pc = "done_f64" /\ Len(input) >= 8) =>
          IF input[7] \div 16 = 15 /\ input[8] % 128 = 127
          THEN cur.st = "ok" /\ ret.class = "nan" /\ cur.buf = Drop(input, 8)
          ELSE /\ [s |-> cur, v |-> ret] = BorshF64(Cursor(input))
               /\ cur.st = "ok" /\ ret.class # "nan"

\* an f64 whose byte 7 has its low 7 bits set while byte 6 has not its high 4
\* bits set: the standard decode, a finite value
C8_Witness ==
    /\ pc = "done_f64" /\ Len(input) = 9
    /\ input[8] = 127 /\ input[7] = 239
    /\ ret.class = "finite" /\ Len(cur.buf) = 1

-----------------------------------------------------------------------------
(* C3, C4: account discrimination *)

\* C3: the prefix discriminator fails on a blob of fewer than 8 bytes with the
\* too-short error carrying (blob length, 8); fails with
\* UnknownDiscriminatedAccount when the first 8 bytes are the discriminator of
\* no account of the IDL; and otherwise does what the decoder of the account
\* with that discriminator does on bytes 8..end of the blob.
C3_PrefixDiscrimination ==
    pc = "done_prefix" =>
        LET known == {i \in 1..Len(idl.accounts) :
                         account_discriminator(idl.accounts[i].name) = Take(input, 8)}
        IN  IF Len(input) < 8
            THEN /\ cur.st = "err"
                 /\ cur.err = [kind |-> "AccountDataTooShortForDiscriminatorBytes",
                               len |-> Len(input), need |-> 8]
                 /\ cur.out = <<>>
            ELSE IF known = {}
            THEN cur.st = "err" /\ cur.err.kind = "UnknownDiscriminatedAccount"
                 /\ cur.out = <<>>
            ELSE \E i \in known :
                    cur = TypeDefDeserialize(de, idl.types, opts, idl.accounts[i],
                                             Cursor(SubSeq(input, 9, Len(input))))

\* the discriminator of VaultInfo followed by two bytes, decoded with success
\* as VaultInfo { flag, n } from those two bytes
C3_Witness ==
    /\ pc = "done_prefix" /\ idl = AnchorIdl
    /\ input = account_discriminator("VaultInfo") \o <<1, 2>>
    /\ cur.st = "ok" /\ cur.buf = <<>>
    /\ cur.out[3] = NameTok("flag")

\* the accounts that take part in structural classification, in ascending
\* min_total_size order
Discs == MatchDiscriminatorsFrom(idl.accounts, SomeTypeMap(idl.types))

\* a matcher matches: the bytes at its offset are a COption tag, or a bool
MatcherHolds(m, blob) ==
    IF m.k = "COption"
    THEN /\ m.offset + 4 <= Len(blob)
         /\ SubSeq(blob, m.offset + 1, m.offset + 4) \in {<<0, 0, 0, 0>>, <<1, 0, 0, 0>>}
    ELSE /\ m.offset + 1 <= Len(blob)
         /\ blob[m.offset + 1] \in {0, 1}

\* the set C of the claim
Candidates(discs, blob) ==
    {i \in 1..Len(discs) :
        /\ Len(blob) >= discs[i].min_total_size
        /\ \A k \in 1..Len(discs[i].matchers) : MatcherHolds(discs[i].matchers[k], blob)}

\* the account the claim selects among the candidates c (0: none)
Selected(discs, c, blob) ==
    LET exact == {i \in c : discs[i].min_total_size = Len(blob)}
    IN  IF exact # {} THEN CHOOSE i \in exact : \A j \in exact : i <= j
        ELSE IF c # {}
        THEN CHOOSE i \in c : \A j \in c :
                \/ Len(discs[j].matchers) < Len(discs[i].matchers)
                \/ Len(discs[j].matchers) = Len(discs[i].matchers) /\ i <= j
        ELSE 0

\* find_match_name has returned the account the claim selects
ReturnsSelected ==
    LET discs == Discs
        sel == Selected(discs, Candidates(discs, input), input)
    IN  /\ ret.some = (sel # 0)
        /\ sel # 0 => ret.name = discs[sel].account.name

\* C4: structural classification returns the first candidate whose
\* min_total_size is the blob's length, else the candidate with the most
\* matchers (the first of them), else nothing, and then deserialization fails
\* with CannotFindDeserializerForAccount; for A { a: bool, b: bool } and
\* B { a: bool, b: u32 }, [1,0] selects A and [1,0,0,0,0] selects B.
C4_StructuralSelection ==
    /\ pc = "done_name" => (ret.st = "ok" /\ ReturnsSelected)
    /\ (pc = "done_match" /\ Candidates(Discs, input) = {}) =>
          cur.st = "err" /\ cur.err.kind = "CannotFindDeserializerForAccount"
    /\ (pc = "done_name" /\ idl = ShankAB /\ input = <<1, 0>>) => ret.name = "A"
    /\ (pc = "done_name" /\ idl = ShankAB /\ input = <<1, 0, 0, 0, 0>>) => ret.name = "B"

\* C4, the part that holds: a classification that returns, returns the account
\* the claim selects; a deserialization of a blob that is not empty and has no
\* candidate, if it returns, fails with CannotFindDeserializerForAccount.
C4_SelectionUnlessAbort ==
    /\ (pc = "done_name" /\ ret.st = "ok") => ReturnsSelected
    /\ (pc = "done_match" /\ input # <<>> /\ cur.st # "panic"
            /\ Candidates(Discs, input) = {}) =>
          cur.st = "err" /\ cur.err.kind = "CannotFindDeserializerForAccount"
    /\ (pc = "done_name" /\ idl = ShankAB /\ input = <<1, 0>>) => ret.name = "A"
    /\ (pc = "done_name" /\ idl = ShankAB /\ input = <<1, 0, 0, 0, 0>>) => ret.name = "B"

\* a classification that aborts: the one-byte blob [1] against account
\* M { s: COption<String>, t: bool }, whose COption matcher sits at offset 0
\* of an account of min_total_size 1
C4_Witness ==
    /\ pc = "done_name" /\ idl = ShankVar
    /\ input = <<1>>
    /\ ret.st = "panic"

-----------------------------------------------------------------------------
(* The registry *)

\* the call recorded in ret registered a decoder
Succeeded(call) == call.res.k = "Ok" /\ call.res # OkNone

\* the seed of a provider's derived IDL address
SeedOf(provider) == IF provider = "Anchor" THEN ANCHOR_SEED ELSE SHANK_SEED

\* the Idl and the provider a successful call registers
RegisteredIdl(call) ==
    CASE call.op = "add_idl" -> call.arg
      [] call.op = "add_idl_json" -> call.arg.idl
      [] OTHER -> call.arg[SeedOf(call.res.v)].json.idl
RegisteredProvider(call) ==
    IF call.op = "try_add_idl_for_program" THEN call.res.v ELSE call.provider

\* the decoder that an Idl and a provider determine
DecoderOf(d, provider) ==
    [k |-> "some", idl |-> d,
     de_provider |-> IF d.serializer = "spl" THEN "spl" ELSE "borsh",
     discriminator |-> IF provider = "Anchor" THEN "PrefixDiscriminator"
                       ELSE "MatchDiscriminator"]

\* C9: after any sequence of add_idl, add_idl_json and
\* try_add_idl_for_program calls, added_idls() is exactly the set of ids
\* some add call succeeded for and has_idl(id) holds iff id is in that set;
\* a call that did not succeed leaves every registered decoder as it was;
\* a successful call sets the decoder of its id to the one its Idl and
\* provider determine and leaves every other id's decoder as it was.
C9_RegistryTracksSuccessfulAdds ==
    /\ added_idls(json_account_deserializers) = added
    /\ \A id \in Ids : has_idl(json_account_deserializers, id) <=> id \in added
    /\ ret.op # "none" =>
          IF Succeeded(ret)
          THEN /\ json_account_deserializers[ret.id]
                     = DecoderOf(RegisteredIdl(ret), RegisteredProvider(ret))
               /\ \A other \in Ids \ {ret.id} :
                     json_account_deserializers[other] = ret.before[other]
          ELSE json_account_deserializers = ret.before

\* a failed add_idl_json under an id that already has a decoder, while two
\* ids are registered
C9_Witness ==
    /\ ret.op = "add_idl_json"
    /\ ret.res.k = "Err"
    /\ ret.before[ret.id] # Absent
    /\ Cardinality(added) = 2

-----------------------------------------------------------------------------
(* IDL retrieval *)

\* the account at a provider's derived IDL address holds an IDL
Yields(account_provider, provider) ==
    LET account == account_provider[SeedOf(provider)]
    IN  account.k = "account" /\ account.len >= IDL_HEADER_SIZE
            /\ account.zlib /\ account.json.parses

\* the account at a provider's derived IDL address exists
Holds(account_provider, provider) == account_provider[SeedOf(provider)].k = "account"

FirstOf(P(_)) == IDL_PROVIDERS[CHOOSE i \in DOMAIN IDL_PROVIDERS :
                                  P(IDL_PROVIDERS[i])
                                  /\ \A j \in 1..(i - 1) : ~P(IDL_PROVIDERS[j])]

\* C10: try_add_idl_for_program returns the first provider, in the order
\* Anchor then Shank, whose derived IDL address yields an IDL, having
\* registered that IDL under program_id.to_string(); it returns none only
\* when neither address yields an IDL, and then registers nothing.
C10_FirstYieldingProvider ==
    ret.op = "try_add_idl_for_program" =>
        LET account_provider == ret.arg
            yields(p) == Yields(account_provider, p)
        IN  /\ (\E p \in IdlProviders : yields(p)) =>
                  /\ ret.res = OkSome(FirstOf(yields))
                  /\ json_account_deserializers[ret.id]
                        = DecoderOf(account_provider[SeedOf(FirstOf(yields))].json.idl,
                                    FirstOf(yields))
            /\ ret.res = OkNone =>
                  /\ \A p \in IdlProviders : ~yields(p)
                  /\ json_account_deserializers = ret.before

\* What the loop does: it stops at the first provider whose address holds an
\* account.  A returned provider is that one, and its IDL is registered
\* under program_id.to_string(); none is returned exactly when no address
\* holds an account; if that first account cannot be turned into a decoder
\* the call ends in an error or a panic, and nothing is registered.
C10_StopsAtFirstAccount ==
    ret.op = "try_add_idl_for_program" =>
        LET account_provider == ret.arg
            holds(p) == Holds(account_provider, p)
        IN  IF \E p \in IdlProviders : holds(p)
            THEN LET first == FirstOf(holds)
                     account == account_provider[SeedOf(first)]
                 IN  IF Yields(account_provider, first)
                        /\ account.json.idl.serializer \in {"none", "borsh", "spl"}
                     THEN /\ ret.res = OkSome(first)
                          /\ json_account_deserializers
                                = [ret.before EXCEPT
                                     ![ret.id] = DecoderOf(account.json.idl, first)]
                     ELSE /\ ret.res.k = IF account.len < IDL_HEADER_SIZE
                                         THEN "panic" ELSE "Err"
                          /\ json_account_deserializers = ret.before
            ELSE /\ ret.res \in {OkNone, ErrRes("IdlPubkeyError")}
                 /\ json_account_deserializers = ret.before

\* the Anchor address holds ten bytes, the Shank address a valid IDL, and
\* the call panicked
C10_Witness ==
    /\ pc = "aborted"
    /\ ret.op = "try_add_idl_for_program"
    /\ ret.arg[ANCHOR_SEED].len < IDL_HEADER_SIZE
    /\ ret.arg[ANCHOR_SEED].k = "account"
    /\ Yields(ret.arg, "Shank")
    /\ ret.res.k = "panic"

-----------------------------------------------------------------------------
(* C11: name resolution in the registry *)

\* the innermost error of a chain of wrapped errors
RECURSIVE RootErr(_)
RootErr(e) == IF "inner" \in DOMAIN e THEN RootErr(e.inner) ELSE e

\* the Defined names a type refers to, directly or through definitions of defs,
\* looking at most depth definitions deep
RECURSIVE Refs(_, _, _)
Refs(defs, t, depth) ==
    CASE t.k = "Defined" ->
            {t.name} \cup
            (IF depth = 0 \/ MapIndex(defs, t.name) = 0 THEN {}
             ELSE LET dty == defs[MapIndex(defs, t.name)].ty
                  IN  IF dty.k = "Struct"
                      THEN UNION {Refs(defs, dty.fields[i].ty, depth - 1) :
                                    i \in 1..Len(dty.fields)}
                      ELSE {})
      [] t.k \in {"Option", "COption", "Vec", "Array", "HashSet", "BTreeSet"} ->
            Refs(defs, t.inner, depth)
      [] t.k = "Tuple" -> UNION {Refs(defs, t.inners[i], depth) : i \in 1..Len(t.inners)}
      [] OTHER -> {}

\* C11: Defined(name) is resolved by name when the bytes are decoded, so the
\* result of decoding a type on given bytes (status, error, text, bytes left) is
\* the same for every order in which the IDL's type definitions were
\* registered; and decoding Defined(name) for a name no definition has fails
\* with CannotFindDefinedType(name), nothing read and nothing written.
C11_ResolvedByNameAtDecodeTime ==
    /\ pc = "twice" => again.cur = cur
    /\ (pc \in {"once", "twice"} /\ ty.k = "Defined" /\ MapIndex(idl.types, ty.name) = 0) =>
          /\ cur.st = "err"
          /\ cur.err = [kind |-> "CannotFindDefinedType", name |-> ty.name]
          /\ cur.buf = input /\ cur.out = <<>>
    /\ (pc \in {"once", "twice"} /\ cur.st = "err"
            /\ RootErr(cur.err).kind = "CannotFindDefinedType") =>
          /\ RootErr(cur.err).name \in Refs(idl.types, ty, Len(idl.types))
          /\ MapIndex(idl.types, RootErr(cur.err).name) = 0

\* Nest, registered before Pair and Unit2 which it refers to, decoded with
\* success, and decoded again with Nest registered after both
C11_Witness ==
    /\ pc = "twice"
    /\ ty = TDefined("Nest")
    /\ MapIndex(idl.types, "Nest") < MapIndex(idl.types, "Pair")
    /\ MapIndex(idl.types, "Nest") < MapIndex(idl.types, "Unit2")
    /\ MapIndex(ret, "Nest") > MapIndex(ret, "Pair")
    /\ MapIndex(ret, "Nest") > MapIndex(ret, "Unit2")
    /\ cur.st = "ok" /\ cur.buf = <<>> /\ Len(input) = 3

-----------------------------------------------------------------------------
(* C12: classification and decoding *)

\* what decoding does once the decoder of the account called name is selected
DecodesAs(deserializer, name, blob) ==
    \E i \in 1..Len(deserializer.idl.accounts) :
        /\ deserializer.idl.accounts[i].name = name
        /\ cur = TypeDefDeserialize(deserializer.de_provider, deserializer.idl.types, opts,
                                    deserializer.idl.accounts[i],
                                    Cursor(IF deserializer.discriminator = "PrefixDiscriminator"
                                           THEN Drop(blob, 8) ELSE blob))

\* decoding has failed before any decoder was selected
NoDecoderSelected ==
    /\ cur.st = "err" /\ cur.out = <<>> /\ cur.buf = input
    /\ cur.err.kind \in {"CannotFindAccountDeserializerForProgramId",
                         "AccountDataTooShortForDiscriminatorBytes",
                         "UnknownDiscriminatedAccount",
                         "CannotFindDeserializerForAccount"}

\* C12: account_name(id, blob) returns, leaving the blob as it was; it returns
\* Some(n) exactly when deserialize_account_to_json(id, blob, sink) selects the
\* decoder of account n, and None exactly when that call fails without
\* selecting a decoder (unknown id, blob too short, unknown tag, no match).
C12_ClassificationAgreesWithDecoding ==
    /\ pc \in {"named", "decoded"} => ret.st = "ok"
    /\ pc = "decoded" =>
          IF ret.some
          THEN DecodesAs(json_account_deserializers[ret.id], ret.name, input)
          ELSE NoDecoderSelected

\* C12, the part that holds: whenever account_name returns, it agrees with
\* the decoding of the same blob under the same id.
C12_AgreesWhenItReturns ==
    (pc = "decoded" /\ ret.st = "ok") =>
          IF ret.some
          THEN DecodesAs(json_account_deserializers[ret.id], ret.name, input)
          ELSE NoDecoderSelected

\* account_name aborts on the blob [1] against the account
\* M { s: COption<String>, t: bool }, and so does the decoding
C12_Witness ==
    /\ pc = "decoded" /\ idl = ShankVar /\ ret.id = "Prog1"
    /\ input = <<1>>
    /\ ret.st = "panic" /\ cur.st = "panic"

-----------------------------------------------------------------------------
(* C13: the primitive readers *)

\* the width of the value a reader reads from buf: the integer, float, bool
\* or key; the length prefix and the bytes it counts; the Option tag; the
\* COption tag and, when the value is absent, its padding
ReaderWidth(t, buf) ==
    CASE t.k = "Option" -> 1
      [] t.k = "COption" ->
            IF Take(buf, 4) = <<0, 0, 0, 0>>
            THEN 4 + idl_type_bytes(t.inner, SomeTypeMap(IdlTypes))
            ELSE 4
      [] OTHER -> EncodedWidth(IdlTypes, t, buf)

\* C13: every reader of both conventions, on every buffer, returns the value
\* with the cursor advanced by the value's width, or returns an error; it
\* never aborts.
C13_ReadersNeverAbort ==
    pc = "read" =>
        /\ cur.st \in {"ok", "err"}
        /\ cur.st = "ok" => (Consumed = ReaderWidth(ty, input) /\ Consumed <= Len(input))

\* C13, the part that holds: a reader aborts only under the spl convention, on
\* a key of fewer than 32 bytes or on an absent COption whose padding is not
\* all there; a reader that returns a value has advanced by its width.
C13_AbortsOnlyOnShortSplInput ==
    pc = "read" =>
        /\ cur.st = "panic" <=>
              /\ de = "spl"
              /\ \/ ty.k = "PublicKey" /\ Len(input) < PUBKEY_BYTES
                 \/ /\ ty.k = "COption" /\ Len(input) >= 4
                    /\ Take(input, 4) = <<0, 0, 0, 0>>
                    /\ idl_type_bytes(ty.inner, NoTypeMap) # NoSize
                    /\ Len(input) < 4 + idl_type_bytes(ty.inner, NoTypeMap)
        /\ cur.st = "ok" => (Consumed = ReaderWidth(ty, input) /\ Consumed <= Len(input))

\* SplDeserializer::pubkey on a one-byte buffer
C13_Witness ==
    /\ pc = "read" /\ de = "spl" /\ ty = Prim("PublicKey")
    /\ input = <<1>>
    /\ cur.st = "panic"

-----------------------------------------------------------------------------
(* C14: the COption tag *)

\* what the tag of a COption of the given inner type should give on a buffer
\* that holds the tag, the padding being sized by the oracle `size`
COptionReads(size) ==
    LET tag == Take(input, 4)
    IN  CASE tag = <<0, 0, 0, 0>> ->
                IF size # NoSize
                THEN cur.st = "ok" /\ ret.v = FALSE /\ Consumed = 4 + size
                ELSE cur.st = "err" /\ cur.err.kind = "InvalidDataToDeserialize"
          [] tag = <<1, 0, 0, 0>> -> cur.st = "ok" /\ ret.v = TRUE /\ Consumed = 4
          [] OTHER -> cur.st = "err" /\ cur.err.kind = "InvalidDataToDeserialize"

\* C14: SplDeserializer::coption consumes the four tag bytes; on [0,0,0,0] the
\* value is absent and the cursor also skips size_of(inner) bytes, for every
\* inner type the size oracle can size, Defined references to fixed-size named
\* types included; on [1,0,0,0] the value is present and 4 bytes are
\* consumed; other tags fail; absent with an inner type of unknown size fails.
C14_AbsentSkipsOracleSize ==
    (pc = "read" /\ de = "spl" /\ ty.k = "COption" /\ Len(input) >= 4) =>
        COptionReads(idl_type_bytes(ty.inner, SomeTypeMap(IdlTypes)))

\* C14, the part that holds: the same with the oracle asked without the type
\* map, as coption asks it, on buffers that hold the padding.
C14_AbsentSkipsSizeWithoutTypeMap ==
    (pc = "read" /\ de = "spl" /\ ty.k = "COption" /\ Len(input) >= 4) =>
        LET size == idl_type_bytes(ty.inner, NoTypeMap)
        IN  (Take(input, 4) = <<0, 0, 0, 0>> /\ size # NoSize /\ Len(input) < 4 + size)
            \/ COptionReads(size)

\* an absent COption<Pair>, the two bytes of the Pair all there
C14_Witness ==
    /\ pc = "read" /\ de = "spl" /\ ty = TCOption(TDefined("Pair"))
    /\ input = <<0, 0, 0, 0, 1, 1>>
    /\ idl_type_bytes(ty.inner, SomeTypeMap(IdlTypes)) = 2
    /\ cur.st = "err"

-----------------------------------------------------------------------------
(* C15: Option under the standard convention *)

\* C15: under the borsh convention the Option tag is one byte; tag 0 emits
\* null and leaves every byte after the tag in the buffer; any other tag means
\* present, and the result is that of decoding the inner type on the bytes
\* after the tag.
C15_OptionTag ==
    (de = "borsh" /\ ty.k = "Option" /\ Len(input) >= 1) =>
        /\ pc = "read" =>
              cur.st = "ok" /\ Consumed = 1 /\ ret.v = (input[1] # 0)
        /\ pc = "done" =>
              IF input[1] = 0
              THEN cur.st = "ok" /\ cur.out = <<Tok("null")>> /\ cur.buf = Drop(input, 1)
              ELSE LET r == Deserialize(de, IdlTypes, opts, ty.inner,
                                        Cursor(Drop(input, 1)))
                   IN  /\ cur.st = r.st /\ cur.buf = r.buf /\ cur.out = r.out
                       /\ r.st = "err" => cur.err.inner = r.err

\* Option<u8> with tag 34 and payload 97, and Option<String> with tag 0 and
\* four bytes left in the buffer
C15_Witness ==
    /\ pc = "done" /\ de = "borsh"
    /\ \/ /\ ty = TOption(Prim("U8")) /\ input = <<34, 97>>
          /\ cur.st = "ok" /\ cur.out = <<IntTok("U8", <<97>>)>> /\ cur.buf = <<>>
       \/ /\ ty = TOption(Prim("String")) /\ input = <<0, 0, 0, 0, 97>>
          /\ cur.out = <<Tok("null")>> /\ cur.buf = <<0, 0, 0, 97>>

-----------------------------------------------------------------------------
(* C16: the enum discriminant *)

\* the definition a Defined type names, among IdlTypes
DefOf(t) == IdlTypes[MapIndex(IdlTypes, t.name)]

\* a registered enum is decoded from a buffer holding at least the discriminant
EnumDecoded ==
    /\ Decoded /\ ty.k = "Defined" /\ MapIndex(IdlTypes, ty.name) # 0
    /\ DefOf(ty).ty.k = "Enum" /\ Len(input) >= 1

\* C16: decoding an enum reads one u8 discriminant and decodes the variant
\* declared at that zero-based index on the bytes that follow; a discriminant
\* at or past the number of variants fails with
\* InvalidEnumVariantDiscriminator(discriminant), and nothing after the
\* discriminant is read and nothing is emitted.
C16_EnumDiscriminant ==
    EnumDecoded =>
        LET variants == DefOf(ty).ty.variants
            n == input[1]
        IN  IF n < Len(variants)
            THEN LET r == VariantDeserialize(de, IdlTypes, opts, variants[n + 1],
                                             Cursor(Drop(input, 1)))
                 IN  cur.st = r.st /\ cur.buf = r.buf /\ cur.out = r.out
            ELSE /\ cur.st = "err"
                 /\ RootErr(cur.err) = [kind |-> "InvalidEnumVariantDiscriminator",
                                        name |-> n]
                 /\ cur.buf = Drop(input, 1) /\ cur.out = <<>>

\* Mixed has two variants: discriminant 2 is out of range, a payload follows
C16_Witness ==
    /\ pc = "done_def" /\ ty = TDefined("Mixed")
    /\ input = <<2, 0, 0, 0, 1>>
    /\ cur.st = "err" /\ cur.err.kind = "InvalidEnumVariantDiscriminator"
    /\ cur.buf = <<0, 0, 0, 1>>

-----------------------------------------------------------------------------
(* C17: the JSON shape of enum values *)

\* C17: a unit variant is written as the bare string "VariantName" and reads
\* no payload; a variant with named fields as {"VariantName":{...}}, the
\* object of its fields in order; a tuple variant as {"VariantName":[...]},
\* the array the types decode to as a Tuple.
C17_EnumShape ==
    (EnumDecoded /\ cur.st = "ok") =>
        LET variant == DefOf(ty).ty.variants[input[1] + 1]
            rest == Cursor(Drop(input, 1))
            key == <<Tok("{"), QUOTE, NameTok(variant.name), QUOTE, COLON>>
        IN  CASE variant.fields.k = "Named" ->
                    LET payload == TypeDefDeserialize(de, IdlTypes, opts,
                                       TypeDef("payload", Struct(variant.fields.fields)),
                                       rest)
                    IN  /\ cur.out = key \o payload.out \o <<Tok("}")>>
                        /\ payload.out[1] = Tok("{")
                        /\ cur.buf = payload.buf
              [] variant.fields.k = "Tuple" ->
                    LET payload == Deserialize(de, IdlTypes, opts,
                                               TTuple(variant.fields.types), rest)
                    IN  /\ cur.out = key \o payload.out \o <<Tok("}")>>
                        /\ payload.out[1] = Tok("[")
                        /\ cur.buf = payload.buf
              [] OTHER ->
                    /\ cur.out = <<QUOTE, NameTok(variant.name), QUOTE>>
                    /\ cur.buf = Drop(input, 1)

\* the variant NamedFields {uno, dos} of Mixed, read from 1, 34, 97
C17_Witness ==
    /\ pc = "done_def" /\ ty = TDefined("Mixed")
    /\ input = <<1, 34, 97>>
    /\ cur.st = "ok" /\ cur.buf = <<>>
    /\ Take(cur.out, 6) = <<Tok("{"), QUOTE, NameTok("NamedFields"), QUOTE, COLON, Tok("{")>>
    /\ cur.out[Len(cur.out)] = Tok("}")

-----------------------------------------------------------------------------
(* C18: order of fields and elements *)

\* the values of the given types decoded one after the other from buf, each
\* from the bytes the one before it left
RECURSIVE Pieces(_, _)
Pieces(types, buf) ==
    IF types = <<>> THEN <<>>
    ELSE LET r == Deserialize(de, IdlTypes, opts, Head(types), Cursor(buf))
         IN  <<r>> \o Pieces(Tail(types), r.buf)

\* the outputs items[i..], sep between them
RECURSIVE Join(_, _, _)
Join(items, i, sep) ==
    IF i > Len(items) THEN <<>>
    ELSE items[i] \o (IF i < Len(items) THEN sep ELSE <<>>) \o Join(items, i + 1, sep)

\* the bytes left after the pieces, which start at buf
LeftAfter(pieces, buf) == IF pieces = <<>> THEN buf ELSE pieces[Len(pieces)].buf

\* C18, structs: the object holds the fields in declaration order, each value
\* decoded from the bytes that follow the field before it.
StructInOrder(fields) ==
    LET pieces == Pieces([i \in 1..Len(fields) |-> fields[i].ty], input)
        members == [i \in 1..Len(fields) |->
                       <<QUOTE, NameTok(fields[i].name), QUOTE, COLON>> \o pieces[i].out]
    IN  /\ cur.out = <<Tok("{")>> \o Join(members, 1, <<COMMA>>) \o <<Tok("}")>>
        /\ cur.buf = LeftAfter(pieces, input)

\* C18, Vec and sets: the array holds exactly L elements in wire order.
ElemsInOrder(inner, L) ==
    LET pieces == Pieces(Repeat(inner, L), Drop(input, 4))
        elems == [i \in 1..L |-> pieces[i].out]
    IN  /\ cur.out = <<Tok("[")>> \o Join(elems, 1, <<COMMA, SPACE>>) \o <<Tok("]")>>
        /\ cur.buf = LeftAfter(pieces, Drop(input, 4))
        /\ L = 0 => (cur.out = <<Tok("["), Tok("]")>> /\ Consumed = 4)

\* C18, maps: the object holds exactly L pairs in wire order, key then value.
PairsInOrder(inner1, inner2, L) ==
    LET pieces == Pieces([i \in 1..(2 * L) |-> IF i % 2 = 1 THEN inner1 ELSE inner2],
                         Drop(input, 4))
        pairs == [i \in 1..L |->
                     <<QUOTE>> \o pieces[2 * i - 1].out \o <<QUOTE, COLON, SPACE>>
                         \o pieces[2 * i].out]
    IN  /\ cur.out = <<Tok("{")>> \o Join(pairs, 1, <<COMMA, SPACE>>) \o <<Tok("}")>>
        /\ cur.buf = LeftAfter(pieces, Drop(input, 4))

\* C18: decoding preserves order: struct fields come out in declaration order
\* from consecutive bytes; a Vec, set or map with length prefix L comes out as
\* exactly L elements or pairs in wire order; an empty Vec comes out as [] with
\* exactly the four length bytes consumed.
C18_OrderPreserving ==
    (Decoded /\ cur.st = "ok") =>
        CASE ty.k \in {"Vec", "HashSet", "BTreeSet"} ->
                ElemsInOrder(ty.inner, LE(Take(input, 4)))
          [] ty.k \in {"HashMap", "BTreeMap"} ->
                PairsInOrder(ty.inner1, ty.inner2, LE(Take(input, 4)))
          [] ty.k = "Defined" /\ DefOf(ty).ty.k = "Struct" ->
                StructInOrder(DefOf(ty).ty.fields)
          [] OTHER -> TRUE

\* a Vec<u8> of the two elements 34, 1
C18_Witness ==
    /\ pc = "done" /\ ty = TVec(Prim("U8")) /\ opts = DefaultOpts
    /\ input = <<2, 0, 0, 0, 34, 1>>
    /\ cur.st = "ok"
    /\ cur.out = <<Tok("["), IntTok("U8", <<34>>), COMMA, SPACE, IntTok("U8", <<1>>),
                   Tok("]")>>

-----------------------------------------------------------------------------
(* src/idl/encoder: the IDL account container.  Texts are sequences of     *)
(* bytes.  An Idl is its version and name, with no instructions, which     *)
(* serde_json writes as {"version":"..","name":"..","instructions":[]}.    *)
(* A zlib stream is the two header bytes, DEFLATE blocks and the Adler-32  *)
(* of the data; texts this short are written as one stored block.          *)

\* idl_encoder.rs: const DISCRIMINATOR
DISCRIMINATOR == <<24, 70, 98, 191, 58, 144, 123, 158>>

VersionKey == <<123, 34, 118, 101, 114, 115, 105, 111, 110, 34, 58, 34>>
NameKey == <<34, 44, 34, 110, 97, 109, 101, 34, 58, 34>>
InstructionsKey == <<34, 44, 34, 105, 110, 115, 116, 114, 117, 99, 116, 105, 111, 110, 115, 34, 58, 91, 93, 125>>

MinimalIdl(version, name) == [version |-> version, name |-> name]
\* the IDL of the tests (version 0.1.0, name foo) and three others
ContainerIdls ==
    { MinimalIdl(<<48, 46, 49, 46, 48>>, <<102, 111, 111>>),
      MinimalIdl(<<48, 46, 49, 46, 48>>, <<98, 97, 114>>),
      MinimalIdl(<<48, 46, 50>>, <<102, 111, 111>>),
      MinimalIdl(<<48, 46, 50>>, <<>>) }
ContainerKeys == {Repeat(7, PUBKEY_BYTES), Repeat(9, PUBKEY_BYTES)}

\* serde_json::to_vec(idl)
to_vec(d) == VersionKey \o d.version \o NameKey \o d.name \o InstructionsKey

StartsWith(bytes, prefix) ==
    Len(bytes) >= Len(prefix) /\ Take(bytes, Len(prefix)) = prefix
\* the bytes before the first quote character; all of them when there is none
RECURSIVE UpToQuote(_)
UpToQuote(bytes) ==
    IF bytes = <<>> \/ Head(bytes) = 34 THEN <<>>
    ELSE <<Head(bytes)>> \o UpToQuote(Tail(bytes))

\* solana_idl::try_extract_classic_idl on the text of a minimal IDL
try_extract_classic_idl(json) ==
    IF ~StartsWith(json, VersionKey) THEN [st |-> "err", idl |-> NoApiIdl]
    ELSE LET r1 == Drop(json, Len(VersionKey))
             version == UpToQuote(r1)
             r2 == Drop(r1, Len(version))
         IN  IF ~StartsWith(r2, NameKey) THEN [st |-> "err", idl |-> NoApiIdl]
             ELSE LET r3 == Drop(r2, Len(NameKey))
                      name == UpToQuote(r3)
                      r4 == Drop(r3, Len(name))
                  IN  IF r4 # InstructionsKey THEN [st |-> "err", idl |-> NoApiIdl]
                      ELSE [st |-> "ok", idl |-> MinimalIdl(version, name)]

\* to_le_bytes of a u32 and of a u16, to_be_bytes of a u16
LeBytes4(n) == <<n % 256, (n \div 256) % 256, (n \div 65536) % 256, (n \div 16777216) % 256>>
LeBytes2(n) == <<n % 256, (n \div 256) % 256>>
BeBytes2(n) == <<(n \div 256) % 256, n % 256>>

\* Adler-32: a = 1 + the sum of the bytes, b = the sum of the values of a,
\* both modulo 65521; written b then a, big-endian
RECURSIVE AdlerLoop(_, _, _)
AdlerLoop(bytes, a, b) ==
    IF bytes = <<>> THEN BeBytes2(b) \o BeBytes2(a)
    ELSE LET a1 == (a + Head(bytes)) % 65521
         IN  AdlerLoop(Tail(bytes), a1, (b + a1) % 65521)
adler32(bytes) == AdlerLoop(bytes, 1, 0)

\* idl_encoder.rs: zip_bytes; ZlibEncoder writes the header 78 9c, one final
\* stored block (01, LEN, NLEN, the bytes) and the checksum
zip_bytes(bytes) ==
    <<120, 156, 1>> \o LeBytes2(Len(bytes)) \o LeBytes2(65535 - Len(bytes))
        \o bytes \o adler32(bytes)

\* idl_decoder.rs: unzip_bytes; ZlibDecoder reads one stream and leaves what
\* follows it unread.  Of the DEFLATE blocks only a final stored block is
\* inflated here; a first block byte of 0 wants a block after it and 255 is a
\* reserved block type, and both fail.
unzip_bytes(bytes) ==
    LET ZlibErr == [st |-> "err", err |-> "IdlContainerShouldContainZlibData", json |-> <<>>]
    IN  IF Len(bytes) < 7 THEN ZlibErr
        ELSE IF (bytes[1] * 256 + bytes[2]) % 31 # 0 \/ bytes[1] % 16 # 8 THEN ZlibErr
        ELSE IF bytes[3] # 1 THEN ZlibErr
        ELSE LET len == LE(<<bytes[4], bytes[5]>>)
                 nlen == LE(<<bytes[6], bytes[7]>>)
                 body == Drop(bytes, 7)
             IN  IF len + nlen # 65535 THEN ZlibErr
                 ELSE IF Len(body) < len + 4 THEN ZlibErr
                 ELSE IF Take(Drop(body, len), 4) # adler32(Take(body, len)) THEN ZlibErr
                 ELSE [st |-> "ok", err |-> "none", json |-> Take(body, len)]

\* idl_encoder.rs: encode_idl_account_json
encode_idl_account_json(program_id, idl_json) ==
    DISCRIMINATOR \o program_id \o LeBytes4(Len(idl_json)) \o zip_bytes(idl_json)

\* idl_encoder.rs: encode_idl_account
encode_idl_account(program_id, d) == encode_idl_account_json(program_id, to_vec(d))

NoDecoded == [st |-> "none", err |-> "none", idl |-> NoApiIdl, json |-> <<>>]

\* idl_decoder.rs: decode_idl_data on bytes
DecodeIdlData(data) ==
    LET u == unzip_bytes(data)
    IN  IF u.st # "ok" THEN [NoDecoded EXCEPT !.st = "err", !.err = u.err]
        ELSE LET r == try_extract_classic_idl(u.json)
             IN  IF r.st # "ok" THEN [NoDecoded EXCEPT !.st = "err", !.err = "ParseIdlError"]
                 ELSE [st |-> "ok", err |-> "none", idl |-> r.idl, json |-> u.json]

\* decode_idl_account_data stripping only the discriminator
DecodeIdlAccountData_strips_discriminator(account_data) ==
    IF Len(account_data) < 8 THEN [NoDecoded EXCEPT !.st = "panic"]
    ELSE DecodeIdlData(Drop(account_data, 8))

\* idl_decoder.rs: decode_idl_account_data on bytes; the slice
\* account_data[IDL_HEADER_SIZE..] aborts on shorter data
DecodeIdlAccountData(account_data) ==
    IF Len(account_data) < IDL_HEADER_SIZE THEN [NoDecoded EXCEPT !.st = "panic"]
    ELSE DecodeIdlData(Drop(account_data, IDL_HEADER_SIZE))

-----------------------------------------------------------------------------
(* Specification SpecContainer: an Idl is encoded into account data for a  *)
(* key, the data possibly altered in one byte or cut short, and decoded.   *)

NoChange == [tampered |-> FALSE, at |-> 0]
\* lengths the account data is cut to
CutLengths == {0, 10, IDL_HEADER_SIZE - 1, IDL_HEADER_SIZE, IDL_HEADER_SIZE + 12}

InitContainer ==
    /\ type_de_maps = NoMaps /\ threads = NoThreads /\ lock_holder = Unlocked
    /\ pc = "ready"
    /\ idl \in ContainerIdls
    /\ input \in ContainerKeys
    /\ ret = [bytes |-> <<>>]
    /\ again = NoChange
    /\ cur = NoDecoded
    /\ de = "borsh" /\ opts = DefaultOpts /\ ty = Prim("U8")
    /\ json_account_deserializers = NoDeserializers /\ added = {}

EncodeIdlAccount ==
    /\ pc = "ready"
    /\ pc' = "encoded"
    /\ ret' = [bytes |-> encode_idl_account(input, idl)]
    /\ UNCHANGED <<de, opts, ty, input, cur, again, idl, json_account_deserializers, added,
                 type_de_maps, threads, lock_holder>>

\* the account data differs from what was encoded in the byte at i
AlterByte ==
    /\ pc = "encoded"
    /\ \E i \in 1..Len(ret.bytes), b \in {0, 255} :
          /\ ret.bytes[i] # b
          /\ ret' = [bytes |-> [ret.bytes EXCEPT ![i] = b]]
          /\ again' = [tampered |-> TRUE, at |-> i]
    /\ pc' = "altered"
    /\ UNCHANGED <<de, opts, ty, input, cur, idl, json_account_deserializers, added,
                 type_de_maps, threads, lock_holder>>

\* the account data is a prefix of what was encoded
CutShort ==
    /\ pc = "encoded"
    /\ \E n \in CutLengths :
          /\ ret' = [bytes |-> Take(ret.bytes, n)]
          /\ again' = [tampered |-> TRUE, at |-> n + 1]
    /\ pc' = "cut"
    /\ UNCHANGED <<de, opts, ty, input, cur, idl, json_account_deserializers, added,
                 type_de_maps, threads, lock_holder>>

DecodeIdlAccount ==
    /\ pc \in {"encoded", "altered", "cut"}
    /\ pc' = "decoded"
    /\ cur' = DecodeIdlAccountData(ret.bytes)
    /\ UNCHANGED <<de, opts, ty, input, again, ret, idl, json_account_deserializers, added,
                 type_de_maps, threads, lock_holder>>

NextContainer == EncodeIdlAccount \/ AlterByte \/ CutShort \/ DecodeIdlAccount

SpecContainer == InitContainer /\ [][NextContainer]_vars

-----------------------------------------------------------------------------
(* C19: the IDL container round trip *)

-----------------------------------------------------------------------------
(* src/ixs: matching an instruction to the instructions of an IDL.  An     *)
(* IdlInstruction is its name and its discriminant: explicit bytes, a      *)
(* value, or none.                                                         *)

NoBytes == [some |-> FALSE, v |-> <<>>]
SomeBytes(bytes) == [some |-> TRUE, v |-> bytes]
\* a discriminant has a value and may have bytes
IxBytes(name, bytes) ==
    [name |-> name, discriminant |-> [k |-> "some", value |-> 0, bytes |-> SomeBytes(bytes)]]
IxValue(name, value) ==
    [name |-> name, discriminant |-> [k |-> "some", value |-> value, bytes |-> NoBytes]]
IxPlain(name) == [name |-> name, discriminant |-> [k |-> "none"]]

SIGHASH_GLOBAL_NAMESPACE == "global"

\* heck::ToSnakeCase, tabulated for the names of the model
to_snake_case(name) ==
    CASE name = "houseInitialize" -> "house_initialize"
      [] OTHER -> name

\* hash::hash(format!("{namespace}:{ix_name}")).to_bytes()[..8], sha256
\* tabulated for the preimages of the model
Sha256Head(namespace, ix_name) ==
    CASE <<namespace, ix_name>> = <<"global", "delegate">> ->
            <<90, 147, 75, 178, 85, 88, 4, 137>>
      [] <<namespace, ix_name>> = <<"global", "increment">> ->
            <<11, 18, 104, 9, 104, 174, 59, 33>>
      [] <<namespace, ix_name>> = <<"global", "house_initialize">> ->
            <<141, 83, 125, 115, 162, 152, 81, 231>>
      [] <<namespace, ix_name>> = <<"global", "houseInitialize">> ->
            <<216, 38, 228, 69, 98, 172, 54, 151>>

\* ixs/discriminator.rs: anchor_sighash
anchor_sighash(namespace, ix_name) == Sha256Head(namespace, to_snake_case(ix_name))

\* discriminator_from_ix taking the value of a discriminant before its bytes
discriminator_from_ix_value_first(ix) ==
    IF ix.discriminant.k = "some" THEN <<ix.discriminant.value>>
    ELSE anchor_sighash(SIGHASH_GLOBAL_NAMESPACE, ix.name)

\* ixs/discriminator.rs: discriminator_from_ix
discriminator_from_ix(ix) ==
    IF ix.discriminant.k = "some"
    THEN IF ix.discriminant.bytes.some THEN ix.discriminant.bytes.v
         ELSE <<ix.discriminant.value>>
    ELSE anchor_sighash(SIGHASH_GLOBAL_NAMESPACE, ix.name)

\* the `for (a, b) in disc.iter().zip(ix.data())` loop: the number of leading
\* positions at which disc and data agree
RECURSIVE Score(_, _)
Score(disc, data) ==
    IF disc = <<>> \/ data = <<>> \/ Head(disc) # Head(data) THEN 0
    ELSE 1 + Score(Tail(disc), Tail(data))

NoIx == [some |-> FALSE, i |-> 0, name |-> ""]

\* instruction_mapper.rs: the loop of find_best_matching_idl_ix, from
\* instruction i on
RECURSIVE BestLoop(_, _, _, _, _)
BestLoop(ix_idls, data, i, best_match, best_match_score) ==
    IF i > Len(ix_idls) THEN best_match
    ELSE LET disc == discriminator_from_ix(ix_idls[i])
         IN  IF Len(disc) > Len(data)
             THEN BestLoop(ix_idls, data, i + 1, best_match, best_match_score)
             ELSE LET score == Score(disc, data)
                  IN  IF score > best_match_score
                      THEN BestLoop(ix_idls, data, i + 1,
                                    [some |-> TRUE, i |-> i, name |-> ix_idls[i].name], score)
                      ELSE BestLoop(ix_idls, data, i + 1, best_match, best_match_score)

\* instruction_mapper.rs: find_best_matching_idl_ix
find_best_matching_idl_ix(ix_idls, data) == BestLoop(ix_idls, data, 1, NoIx, 0)

-----------------------------------------------------------------------------
(* Specification SpecIxs: one instruction is matched against the           *)
(* instructions of an IDL.                                                 *)

\* Shank values; explicit bytes with a tie and tags of several lengths; tags
\* that agree with one another on their first bytes; names only; an empty
\* tag; bytes, a value and a name together
IxIdls ==
    { <<IxValue("Create", 0), IxValue("Update", 1), IxValue("Close", 2)>>,
      <<IxBytes("a", <<1>>), IxBytes("b", <<1, 2>>), IxBytes("c", <<1, 2>>),
        IxBytes("d", <<2, 0, 1>>)>>,
      <<IxBytes("e", <<1, 2, 0>>), IxBytes("f", <<1, 0>>), IxBytes("g", <<0>>)>>,
      <<IxPlain("delegate"), IxPlain("increment"), IxPlain("houseInitialize")>>,
      <<IxBytes("h", <<>>), IxValue("i", 1)>>,
      <<IxBytes("j", <<2>>), IxValue("k", 0), IxPlain("increment")>> }

MaxIxData == 3
IxNames == {"delegate", "increment", "houseInitialize"}
IxData ==
    ByteSeqs(MaxIxData)
        \cup {anchor_sighash(SIGHASH_GLOBAL_NAMESPACE, n) \o s : n \in IxNames, s \in ByteSeqs(1)}
        \cup {Take(anchor_sighash(SIGHASH_GLOBAL_NAMESPACE, n), 7) \o <<0>> : n \in IxNames}

InitIxs ==
    /\ type_de_maps = NoMaps /\ threads = NoThreads /\ lock_holder = Unlocked
    /\ pc = "ready"
    /\ idl \in {[instructions |-> ixs] : ixs \in IxIdls}
    /\ input \in IxData
    /\ ret = NoIx
    /\ cur = Cursor(<<>>) /\ again = NoCall
    /\ de = "borsh" /\ opts = DefaultOpts /\ ty = Prim("U8")
    /\ json_account_deserializers = NoDeserializers /\ added = {}

FindBestMatchingIdlIx ==
    /\ pc = "ready"
    /\ pc' = "matched"
    /\ ret' = find_best_matching_idl_ix(idl.instructions, input)
    /\ UNCHANGED <<de, opts, ty, input, cur, again, idl, json_account_deserializers, added,
                 type_de_maps, threads, lock_holder>>

\* the tag of one instruction of the IDL
DiscriminatorFromIx ==
    /\ pc = "ready"
    /\ pc' = "tagged"
    /\ \E i \in 1..Len(idl.instructions) :
          ret' = [some |-> TRUE, i |-> i, name |-> idl.instructions[i].name,
                  disc |-> discriminator_from_ix(idl.instructions[i])]
    /\ UNCHANGED <<de, opts, ty, input, cur, again, idl, json_account_deserializers, added,
                 type_de_maps, threads, lock_holder>>

NextIxs == FindBestMatchingIdlIx \/ DiscriminatorFromIx

SpecIxs == InitIxs /\ [][NextIxs]_vars

-----------------------------------------------------------------------------
(* C20: instruction matching *)

TagOf(i) == discriminator_from_ix(idl.instructions[i])
\* the instructions whose whole tag is a prefix of the data
PrefixTags ==
    {i \in 1..Len(idl.instructions) :
        Len(TagOf(i)) <= Len(input) /\ Take(input, Len(TagOf(i))) = TagOf(i)}

\* C20: the instruction selected is one whose tag is a prefix of the
\* instruction data, among those the one with the longest tag, and among
\* those of that length the first declared; when no tag is a prefix of the
\* data, none is selected.
C20_LongestPrefixTag ==
    pc = "matched" =>
        IF PrefixTags = {} THEN ~ret.some
        ELSE /\ ret.some
             /\ ret.i \in PrefixTags
             /\ \A j \in PrefixTags :
                   /\ Len(TagOf(j)) <= Len(TagOf(ret.i))
                   /\ Len(TagOf(j)) = Len(TagOf(ret.i)) => ret.i <= j

\* C20, what holds: among the instructions whose tag is no longer than the
\* data and agrees with the data on at least its first byte, the one selected
\* agrees on the most leading bytes, the first declared of those; none is
\* selected when there is no such instruction.
C20_LongestCommonPrefix ==
    pc = "matched" =>
        LET scored == {i \in 1..Len(idl.instructions) :
                          Len(TagOf(i)) <= Len(input) /\ Score(TagOf(i), input) > 0}
        IN  IF scored = {} THEN ~ret.some
            ELSE /\ ret.some
                 /\ ret.i \in scored
                 /\ ret.name = idl.instructions[ret.i].name
                 /\ \A j \in scored :
                       /\ Score(TagOf(j), input) <= Score(TagOf(ret.i), input)
                       /\ Score(TagOf(j), input) = Score(TagOf(ret.i), input) => ret.i <= j

\* the data 1, 1 against the tags 1 2 0, 1 0 and 0: no tag is a prefix of
\* the data, and f is selected
C20_Witness ==
    /\ pc = "matched"
    /\ idl.instructions = <<IxBytes("e", <<1, 2, 0>>), IxBytes("f", <<1, 0>>),
                            IxBytes("g", <<0>>)>>
    /\ input = <<1, 1>>
    /\ PrefixTags = {}
    /\ ret.some /\ ret.name = "f"

-----------------------------------------------------------------------------
(* src/ixs/instruction_mapper.rs: labelling the accounts of an instruction. *)
(* A Pubkey is its base58 text; an observed instruction is its program_id,  *)
(* its accounts and its data; an Option<&Idl> is NoMapIdl or an IDL with a  *)
(* name and instructions, each with the names of its accounts.              *)

SYSTEM_PROGRAM == "11111111111111111111111111111111"
CLOCK_SYSVAR == "SysvarC1ock11111111111111111111111111111111"
\* lazy_static BUILTIN_PROGRAMS, two of its entries
BUILTIN_PROGRAMS == (SYSTEM_PROGRAM :> "System Program") @@ (CLOCK_SYSVAR :> "Clock Sysvar")

\* HashMap::insert
Insert(map, key, value) == (key :> value) @@ map
NoLabels == [k \in {} |-> ""]
NoString == [some |-> FALSE, name |-> ""]
SomeString(name) == [some |-> TRUE, name |-> name]

\* an IdlInstruction with accounts
WithAccounts(ix, accounts) == [name |-> ix.name, discriminant |-> ix.discriminant,
                               accounts |-> accounts]
NoMapIdl == [k |-> "none", name |-> "", instructions |-> <<>>]
MapIdl(name, instructions) == [k |-> "some", name |-> name, instructions |-> instructions]

\* InstructionMapper::determine_accounts_mapper
determine_accounts_mapper(instruction, d) ==
    find_best_matching_idl_ix(d.instructions, instruction.data)

\* the `for (idx, pubkey) in ix_accounts.into_iter().enumerate()` loop of
\* map_accounts, from position idx (counted from 1) on
RECURSIVE AccountsLoop(_, _, _, _, _, _)
\* AccountsLoop asking whether the pubkey is the program before looking it up
\* in the built-in table
AccountsLoop_program_first(instruction, d, mapper, idx, accounts, instruction_name) ==
    IF idx > Len(instruction.accounts)
    THEN [accounts |-> accounts, instruction_name |-> instruction_name]
    ELSE LET pubkey == instruction.accounts[idx]
         IN  IF d.k = "some" /\ pubkey = instruction.program_id
             THEN AccountsLoop(instruction, d, mapper, idx + 1,
                               Insert(accounts, pubkey, d.name), instruction_name)
             ELSE IF pubkey \in DOMAIN BUILTIN_PROGRAMS
             THEN AccountsLoop(instruction, d, mapper, idx + 1,
                               Insert(accounts, pubkey, BUILTIN_PROGRAMS[pubkey]),
                               instruction_name)
             ELSE IF mapper.some
             THEN LET ix_accounts == d.instructions[mapper.i].accounts
                      labelled == IF idx <= Len(ix_accounts)
                                  THEN Insert(accounts, pubkey, ix_accounts[idx])
                                  ELSE accounts
                  IN  AccountsLoop(instruction, d, mapper, idx + 1, labelled,
                                   SomeString(mapper.name))
             ELSE AccountsLoop(instruction, d, mapper, idx + 1, accounts, instruction_name)

AccountsLoop(instruction, d, mapper, idx, accounts, instruction_name) ==
    IF idx > Len(instruction.accounts)
    THEN [accounts |-> accounts, instruction_name |-> instruction_name]
    ELSE LET pubkey == instruction.accounts[idx]
         IN  IF pubkey \in DOMAIN BUILTIN_PROGRAMS
             THEN AccountsLoop(instruction, d, mapper, idx + 1,
                               Insert(accounts, pubkey, BUILTIN_PROGRAMS[pubkey]),
                               instruction_name)
             ELSE IF d.k = "some" /\ pubkey = instruction.program_id
             THEN AccountsLoop(instruction, d, mapper, idx + 1,
                               Insert(accounts, pubkey, d.name), instruction_name)
             ELSE IF mapper.some
             THEN LET ix_accounts == d.instructions[mapper.i].accounts
                      labelled == IF idx <= Len(ix_accounts)
                                  THEN Insert(accounts, pubkey, ix_accounts[idx])
                                  ELSE accounts
                  IN  AccountsLoop(instruction, d, mapper, idx + 1, labelled,
                                   SomeString(mapper.name))
             ELSE AccountsLoop(instruction, d, mapper, idx + 1, accounts, instruction_name)

\* InstructionMapper::map_accounts
map_accounts(instruction, d) ==
    LET mapper == IF d.k = "some" THEN determine_accounts_mapper(instruction, d) ELSE NoIx
        r == AccountsLoop(instruction, d, mapper, 1, NoLabels, NoString)
        program_name ==
            IF d.k = "some" THEN SomeString(d.name)
            ELSE IF instruction.program_id \in DOMAIN BUILTIN_PROGRAMS
            THEN SomeString(BUILTIN_PROGRAMS[instruction.program_id])
            ELSE NoString
    IN  [accounts |-> r.accounts, instruction_name |-> r.instruction_name,
         program_name |-> program_name]

\* map_instruction
map_instruction(instruction, d) == map_accounts(instruction, d)

-----------------------------------------------------------------------------
(* Specification SpecMap: one observed instruction is mapped, with or      *)
(* without an IDL.                                                         *)

MaxIxAccounts == 3
PROGRAM == "Prog111111111111111111111111111111111111111"
MapKeys == {SYSTEM_PROGRAM, PROGRAM, "Key1", "Key2"}
RECURSIVE KeySeqs(_)
KeySeqs(n) ==
    IF n = 0 THEN {<<>>}
    ELSE LET prev == KeySeqs(n - 1)
         IN  prev \cup {Append(s, k) : s \in prev, k \in MapKeys}

\* an IDL whose instructions have two, one and no accounts, and one whose
\* tags agree on their first byte
MapIdls ==
    { NoMapIdl,
      MapIdl("vaults", << WithAccounts(IxValue("Create", 0), <<"payer", "vault">>),
                          WithAccounts(IxValue("Update", 1), <<"authority">>),
                          WithAccounts(IxValue("Close", 2), <<>>) >>),
      MapIdl("ledger", << WithAccounts(IxBytes("open", <<1, 2>>), <<"owner", "ledger", "rent">>),
                          WithAccounts(IxBytes("post", <<1, 0>>), <<"owner", "entry">>) >>) }
MapData == {<<>>, <<0>>, <<1>>, <<2, 7>>, <<1, 2, 9>>, <<1, 0>>, <<3>>}

Instruction(program_id, accounts, data) ==
    [program_id |-> program_id, accounts |-> accounts, data |-> data]
NoMapResult == [accounts |-> NoLabels, instruction_name |-> NoString, program_name |-> NoString]

InitMap ==
    /\ type_de_maps = NoMaps /\ threads = NoThreads /\ lock_holder = Unlocked
    /\ pc = "ready"
    /\ idl \in MapIdls
    /\ input \in {Instruction(p, a, d) : p \in {PROGRAM, SYSTEM_PROGRAM},
                                         a \in KeySeqs(MaxIxAccounts), d \in MapData}
    /\ ret = NoMapResult
    /\ cur = Cursor(<<>>) /\ again = NoCall
    /\ de = "borsh" /\ opts = DefaultOpts /\ ty = Prim("U8")
    /\ json_account_deserializers = NoDeserializers /\ added = {}

MapInstruction ==
    /\ pc = "ready"
    /\ pc' = "mapped"
    /\ ret' = map_instruction(input, idl)
    /\ UNCHANGED <<de, opts, ty, input, cur, again, idl, json_account_deserializers, added,
                 type_de_maps, threads, lock_holder>>

NextMap == MapInstruction

SpecMap == InitMap /\ [][NextMap]_vars

-----------------------------------------------------------------------------
(* C21: the labels of the accounts *)

\* the IDL instruction selected for the observed instruction
SelectedIx == IF idl.k = "some" THEN find_best_matching_idl_ix(idl.instructions, input.data)
              ELSE NoIx

\* the label the three rules give the pubkey at position i
PositionLabel(i) ==
    LET pubkey == input.accounts[i]
        selected == SelectedIx
    IN  IF pubkey \in DOMAIN BUILTIN_PROGRAMS THEN SomeString(BUILTIN_PROGRAMS[pubkey])
        ELSE IF idl.k = "some" /\ pubkey = input.program_id THEN SomeString(idl.name)
        ELSE IF selected.some /\ i <= Len(idl.instructions[selected.i].accounts)
        THEN SomeString(idl.instructions[selected.i].accounts[i])
        ELSE NoString

\* the label of pubkey in the result
LabelOf(pubkey) ==
    IF pubkey \in DOMAIN ret.accounts THEN SomeString(ret.accounts[pubkey]) ELSE NoString

\* C21: the pubkey at each position i of the instruction is labelled with the
\* built-in table's name if it is in the table, otherwise with the IDL's
\* program name if it is program_id, otherwise with the name of the i-th
\* account of the selected IDL instruction; it has no label when none of the
\* three applies.
C21_LabelPerPosition ==
    pc = "mapped" =>
        /\ DOMAIN ret.accounts \subseteq {input.accounts[i] : i \in 1..Len(input.accounts)}
        /\ \A i \in 1..Len(input.accounts) : LabelOf(input.accounts[i]) = PositionLabel(i)

\* C21 for pubkeys that may occur at several positions: the label of a pubkey
\* is the one the three rules give its last position that has a label, and
\* it has no label when none of its positions has one.
C21_LabelOfLastPosition ==
    pc = "mapped" =>
        /\ DOMAIN ret.accounts \subseteq {input.accounts[i] : i \in 1..Len(input.accounts)}
        /\ \A i \in 1..Len(input.accounts) :
              LET at == {j \in 1..Len(input.accounts) :
                            input.accounts[j] = input.accounts[i] /\ PositionLabel(j).some}
              IN  IF at = {} THEN LabelOf(input.accounts[i]) = NoString
                  ELSE LabelOf(input.accounts[i])
                           = PositionLabel(CHOOSE j \in at : \A k \in at : k <= j)

\* Create (accounts payer, vault) is selected; Key1 is at the positions 1
\* and 2 and the system program at position 3
C21_Witness ==
    /\ pc = "mapped" /\ idl.k = "some" /\ idl.name = "vaults"
    /\ input = Instruction(PROGRAM, <<"Key1", "Key1", SYSTEM_PROGRAM>>, <<0>>)
    /\ ret.accounts = (SYSTEM_PROGRAM :> "System Program") @@ ("Key1" :> "vault")

-----------------------------------------------------------------------------
(* C30: the instruction name of the result *)

\* C30: instruction_name is the name of the selected IDL instruction whenever
\* an IDL is supplied and an instruction is selected, whatever the accounts
\* of the observed instruction are, and None only when none is selected.
C30_InstructionNameOfSelected ==
    pc = "mapped" =>
        ret.instruction_name = IF SelectedIx.some THEN SomeString(SelectedIx.name)
                               ELSE NoString

\* C30, what holds: instruction_name is the name of the selected instruction
\* when the observed instruction has an account that is neither a built-in
\* program nor the program itself, and None otherwise.
C30_NamedThroughAnAccount ==
    pc = "mapped" =>
        LET plain == {i \in 1..Len(input.accounts) :
                         /\ input.accounts[i] \notin DOMAIN BUILTIN_PROGRAMS
                         /\ ~(idl.k = "some" /\ input.accounts[i] = input.program_id)}
        IN  ret.instruction_name = IF SelectedIx.some /\ plain # {}
                                   THEN SomeString(SelectedIx.name)
                                   ELSE NoString

\* Create is selected for an instruction whose accounts are the system
\* program and the program itself
C30_Witness ==
    /\ pc = "mapped" /\ idl.k = "some" /\ idl.name = "vaults"
    /\ input = Instruction(PROGRAM, <<SYSTEM_PROGRAM, PROGRAM>>, <<0>>)
    /\ SelectedIx.some /\ SelectedIx.name = "Create"
    /\ ret.instruction_name = NoString

-----------------------------------------------------------------------------
(* C24: the tag of an instruction *)

\* C24: the tag of an IDL instruction is the bytes of its discriminant when it
\* has a discriminant with bytes; the single byte discriminant.value when it
\* has a discriminant without bytes; and only without a discriminant the
\* first 8 bytes of the hash of "global:" followed by the instruction name.
C24_TagPrecedence ==
    pc = "tagged" =>
        LET ix == idl.instructions[ret.i]
        IN  ret.disc = IF ix.discriminant.k = "some"
                       THEN IF ix.discriminant.bytes.some THEN ix.discriminant.bytes.v
                            ELSE <<ix.discriminant.value>>
                       ELSE Sha256Head("global", ix.name)

\* C24 with the name the hash is taken of: the instruction name in snake
\* case.
C24_TagPrecedenceSnakeCase ==
    pc = "tagged" =>
        LET ix == idl.instructions[ret.i]
        IN  ret.disc = IF ix.discriminant.k = "some"
                       THEN IF ix.discriminant.bytes.some THEN ix.discriminant.bytes.v
                            ELSE <<ix.discriminant.value>>
                       ELSE Sha256Head("global", to_snake_case(ix.name))

\* houseInitialize has no discriminant: its tag is the hash of
\* global:house_initialize
C24_Witness ==
    /\ pc = "tagged"
    /\ idl.instructions[ret.i] = IxPlain("houseInitialize")
    /\ ret.disc = <<141, 83, 125, 115, 162, 152, 81, 231>>
    /\ ret.disc # Sha256Head("global", "houseInitialize")

-----------------------------------------------------------------------------
(* Specification SpecMatchers: the structural discriminator of one account *)
(* is built, the types of its fields drawn from FieldKinds.                *)

MaxFields == 3
MaxMatchBytes == 2
\* sized fields with and without a matcher, and fields of unknown size
FieldKinds ==
    { Prim("Bool"), Prim("U8"), Prim("U32"), TCOption(Prim("U8")), TDefined("Pair"),
      Prim("String"), TCOption(Prim("String")) }
RECURSIVE FieldSeqs(_)
FieldSeqs(n) ==
    IF n = 0 THEN {<<>>}
    ELSE LET prev == FieldSeqs(n - 1)
         IN  prev \cup {Append(s, t) : s \in prev, t \in FieldKinds}
FieldName(i) == <<"f1", "f2", "f3", "f4", "f5">>[i]
AccountOf(types) ==
    TypeDef("Acct", Struct([i \in 1..Len(types) |-> Field(FieldName(i), types[i])]))
NoDisc == [some |-> FALSE, account |-> AccountOf(<<>>), min_total_size |-> 0,
           matchers |-> <<>>]

InitMatchers ==
    /\ type_de_maps = NoMaps /\ threads = NoThreads /\ lock_holder = Unlocked
    /\ pc = "ready"
    /\ idl \in {[provider |-> "Shank", accounts |-> <<AccountOf(types)>>, types |-> IdlTypes] :
                    types \in FieldSeqs(MaxFields)}
    /\ ret = NoDisc
    /\ input \in ByteSeqs(MaxMatchBytes)
    /\ cur = Cursor(<<>>) /\ again = [matches |-> "none"]
    /\ de = "borsh" /\ opts = DefaultOpts /\ ty = Prim("U8")
    /\ json_account_deserializers = NoDeserializers /\ added = {}

NewMatchDiscriminator ==
    /\ pc = "ready"
    /\ pc' = "built"
    /\ ret' = MatchDiscriminatorNew(idl.accounts[1], SomeTypeMap(idl.types))
    /\ UNCHANGED <<de, opts, ty, input, cur, again, idl, json_account_deserializers, added,
                 type_de_maps, threads, lock_holder>>

\* the blob is put to the discriminator built
MatchesAccount ==
    /\ pc = "built" /\ ret.some
    /\ pc' = "matched"
    /\ again' = [matches |-> matches_account(ret, input)]
    /\ UNCHANGED <<de, opts, ty, input, cur, ret, idl, json_account_deserializers, added,
                 type_de_maps, threads, lock_holder>>

NextMatchers == NewMatchDiscriminator \/ MatchesAccount

SpecMatchers == InitMatchers /\ [][NextMatchers]_vars

-----------------------------------------------------------------------------
(* C22: offsets and min_total_size of the structural discriminator *)

FieldSize(i) == idl_type_bytes(idl.accounts[1].ty.fields[i].ty, SomeTypeMap(idl.types))
\* the number of leading fields whose size is known
Leading ==
    LET n == Len(idl.accounts[1].ty.fields)
        unknown == {i \in 1..n : FieldSize(i) = NoSize}
    IN  IF unknown = {} THEN n ELSE (CHOOSE i \in unknown : \A j \in unknown : i <= j) - 1
RECURSIVE SizeBefore(_)
SizeBefore(i) == IF i <= 1 THEN 0 ELSE SizeBefore(i - 1) + FieldSize(i - 1)
\* the kinds and offsets of the matchers of the leading fields
LeadingMatchers ==
    LET fields == idl.accounts[1].ty.fields
        HasMatcher(m) == m.k \in {"COption", "Bool"}
    IN  SelectSeq([i \in 1..Leading |-> [k |-> fields[i].ty.k, offset |-> SizeBefore(i)]],
                  HasMatcher)
KindsAndOffsets(matchers) ==
    [i \in 1..Len(matchers) |-> [k |-> matchers[i].k, offset |-> matchers[i].offset]]

\* C22: offsets and min_total_size are computed over the leading fields only,
\* up to the first field of unknown size: each matcher has as its offset the
\* sum of the sizes of the fields declared before its field, and the fields
\* at and after the first field of unknown size give no matcher and add
\* nothing to min_total_size.
C22_LeadingFieldsOnly ==
    (pc = "built" /\ ret.some) =>
        /\ ret.min_total_size = SizeBefore(Leading + 1)
        /\ KindsAndOffsets(ret.matchers) = LeadingMatchers

\* C22 for accounts all of whose fields have a known size
C22_WhenEveryFieldIsSized ==
    (pc = "built" /\ Leading = Len(idl.accounts[1].ty.fields)) =>
        /\ ret.some <=> LeadingMatchers # <<>>
        /\ ret.some =>
              /\ ret.min_total_size = SizeBefore(Leading + 1)
              /\ KindsAndOffsets(ret.matchers) = LeadingMatchers

\* fields String, bool, u32: no leading field is sized, yet the
\* discriminator has min_total_size 5 and a matcher
C22_Witness ==
    /\ pc = "built"
    /\ idl.accounts[1] = AccountOf(<<Prim("String"), Prim("Bool"), Prim("U32")>>)
    /\ Leading = 0
    /\ ret.some /\ ret.min_total_size = 5 /\ Len(ret.matchers) = 1

-----------------------------------------------------------------------------
(* C26: structural matching stays inside the blob *)

MatcherWidth(m) == IF m.k = "COption" THEN 4 ELSE 1
MatchersInside(disc) ==
    \A i \in 1..Len(disc.matchers) :
        disc.matchers[i].offset + MatcherWidth(disc.matchers[i]) <= disc.min_total_size

\* C26: every matcher of a structural discriminator lies inside the first
\* min_total_size bytes of its account (a COption matcher at offset o has
\* o + 4 <= min_total_size, a Bool matcher o + 1 <= min_total_size), so
\* matching a blob always returns a result and never aborts.
C26_MatchersInsideMinTotalSize ==
    /\ (pc \in {"built", "matched"} /\ ret.some) => MatchersInside(ret)
    /\ pc = "matched" => again.matches \in {"yes", "no"}

\* C26 for accounts all of whose fields have a known size
C26_InsideWhenEveryFieldIsSized ==
    Leading = Len(idl.accounts[1].ty.fields) =>
        /\ (pc \in {"built", "matched"} /\ ret.some) => MatchersInside(ret)
        /\ pc = "matched" => again.matches \in {"yes", "no"}

\* fields COption<String>, bool: the COption matcher at offset 0 needs four
\* bytes, min_total_size is 1, and the blob 1 is put to it
C26_Witness ==
    /\ pc = "matched"
    /\ idl.accounts[1] = AccountOf(<<TCOption(Prim("String")), Prim("Bool")>>)
    /\ ret.min_total_size = 1 /\ ret.matchers[1].k = "COption" /\ ret.matchers[1].offset = 0
    /\ input = <<1>>
    /\ again.matches = "panic"

-----------------------------------------------------------------------------
(* C27: decoding by account name *)

Declared(d) == {d.accounts[i].name : i \in 1..Len(d.accounts)}
FailsUnknownAccount == cur.st = "err" /\ cur.err.kind = "UnknownAccount"

\* C27: for a registered IDL of either provider,
\* deserialize_account_to_json_by_name finds a decoder for every account name
\* the IDL declares, and fails with UnknownAccount only for names the IDL does
\* not declare.
C27_DeclaredNamesHaveDecoders ==
    pc = "decoded_by_name" => (FailsUnknownAccount <=> ret.name \notin Declared(idl))

\* C27, what holds: under Anchor the names with a decoder are the declared
\* ones; under Shank they are the declared accounts for which a structural
\* discriminator was built.
C27_NamesWithDiscriminators ==
    pc = "decoded_by_name" =>
        IF idl.provider = "Anchor"
        THEN FailsUnknownAccount <=> ret.name \notin Declared(idl)
        ELSE FailsUnknownAccount <=>
                \A i \in 1..Len(idl.accounts) :
                    idl.accounts[i].name = ret.name =>
                        ~MatchDiscriminatorNew(idl.accounts[i], SomeTypeMap(idl.types)).some

\* the Shank account NoMatch {n: u64} is declared and has no decoder
C27_Witness ==
    /\ pc = "decoded_by_name" /\ idl = ShankMany
    /\ ret.name = "NoMatch" /\ ret.name \in Declared(idl)
    /\ input = <<1, 0, 0, 0, 0, 0>>
    /\ FailsUnknownAccount

-----------------------------------------------------------------------------
(* C23: the path of wrappers around a failure *)

\* a call of a registered definition's decoder has returned an error
DefFailed == pc = "done_def" /\ cur.st = "err"

\* an error of a struct is StructDeserializeError(struct name, inner), with
\* inner the FieldDeserializeError(field name, _) of one of its fields
StructWrapped(def, e) ==
    /\ e.kind = "StructDeserializeError" /\ e.name = def.name
    /\ e.inner.kind = "FieldDeserializeError"
    /\ \E i \in 1..Len(def.ty.fields) : e.inner.name = def.ty.fields[i].name

EnumWrapped(def, e) == e.kind = "EnumDeserializeError" /\ e.name = def.name

\* C23: every failure of a composite decoder is wrapped with the name of the
\* enclosing construct: a struct's as StructDeserializeError(struct name,
\* inner), an enum's (the failure to read the discriminant byte included) as
\* EnumDeserializeError(enum name, inner), a field's as
\* FieldDeserializeError(field name, inner).
C23_FailuresAreWrapped ==
    DefFailed =>
        IF DefOf(ty).ty.k = "Struct"
        THEN StructWrapped(DefOf(ty), cur.err)
        ELSE EnumWrapped(DefOf(ty), cur.err)

\* C23, what holds: structs and fields wrap every failure; an enum wraps the
\* failures of its variant, and returns bare the failure to read the
\* discriminant and the discriminant that names no variant.
C23_WrappedButForTheDiscriminant ==
    DefFailed =>
        IF DefOf(ty).ty.k = "Struct"
        THEN StructWrapped(DefOf(ty), cur.err)
        ELSE IF Len(input) = 0 THEN cur.err = [kind |-> "BorshIoError"]
        ELSE IF input[1] >= Len(DefOf(ty).ty.variants)
        THEN cur.err = [kind |-> "InvalidEnumVariantDiscriminator", name |-> input[1]]
        ELSE /\ EnumWrapped(DefOf(ty), cur.err)
             /\ cur.err.inner.kind = "EnumVariantDeserializeError"
             /\ cur.err.inner.name = DefOf(ty).ty.variants[input[1] + 1].name

\* the enum Mixed decoded from no bytes: the discriminant cannot be read
C23_Witness ==
    /\ DefFailed /\ ty = TDefined("Mixed") /\ input = <<>>
    /\ cur.err = [kind |-> "BorshIoError"]

-----------------------------------------------------------------------------
(* src/json/json_accounts_deserializer.rs, src/api.rs: ownership of the    *)
(* name -> decoder map.  type_de_maps[h] is one Arc<Mutex<HashMap>>        *)
(* allocation: its entries (a name and the number of Arc clones the        *)
(* decoder stored under it holds), its strong count, and whether it is     *)
(* still allocated.                                                        *)

\* the Arc clones one JsonIdlEnumVariantDeserializer holds: its own, and for
\* named fields two per field, for a tuple that of tuple_ty_de
VariantHandles(variant) ==
    CASE variant.fields.k = "Named" -> 1 + 2 * Len(variant.fields.fields)
      [] variant.fields.k = "Tuple" -> 2
      [] OTHER -> 1

\* the Arc clones one JsonIdlTypeDefinitionDeserializer holds: its own, and
\* per field that of the field and that of its ty_deserealizer
Handles(def) ==
    IF def.ty.k = "Struct" THEN 1 + 2 * Len(def.ty.fields)
    ELSE 1 + Sum([i \in 1..Len(def.ty.variants) |-> VariantHandles(def.ty.variants[i])])

\* HashMap::insert: the entry of that name is replaced
MapInsert(entries, e) ==
    IF \E i \in 1..Len(entries) : entries[i].name = e.name
    THEN [i \in 1..Len(entries) |-> IF entries[i].name = e.name THEN e ELSE entries[i]]
    ELSE Append(entries, e)

\* from_idl: the loop over idl.types, from type i on
RECURSIVE TypeDeMapLoop(_, _, _)
TypeDeMapLoop(types, i, entries) ==
    IF i > Len(types) THEN entries
    ELSE TypeDeMapLoop(types, i + 1,
             MapInsert(entries, [name |-> types[i].name, handles |-> Handles(types[i])]))

EntryHandles(entries) == Sum([i \in 1..Len(entries) |-> entries[i].handles])

\* the account decoders the discriminator owns
AccountDecoders(d, provider) ==
    IF provider = "Anchor" THEN d.accounts
    ELSE LET discs == MatchDiscriminatorsFrom(d.accounts, SomeTypeMap(d.types))
         IN  [i \in 1..Len(discs) |-> discs[i].account]

\* JsonAccountsDeserializer::from_idl, allocating its type_de_map at handle h
FromIdlAt(h, d, de_provider, provider) ==
    LET entries == TypeDeMapLoop(d.types, 1, <<>>)
        accounts == AccountDecoders(d, provider)
        account_handles == Sum([i \in 1..Len(accounts) |-> Handles(accounts[i])])
    IN  [deserializer |-> [type_de_map |-> h, account_handles |-> account_handles]
                          @@ from_idl(d, de_provider, provider),
         allocation |-> [entries |-> entries,
                         strong |-> 1 + EntryHandles(entries) + account_handles,
                         allocated |-> TRUE]]

\* JsonAccountsDeserializer::drop skipping the clear of the map
DropJsonAccountsDeserializer_keeps_entries(m) == m

\* impl Drop for JsonAccountsDeserializer: type_de_map.lock().unwrap().clear()
DropJsonAccountsDeserializer(m) ==
    [m EXCEPT !.entries = <<>>, !.strong = @ - EntryHandles(m.entries)]

\* the drop glue that follows: the discriminator's account decoders go, then
\* the owner's handle; the allocation is freed when no handle is left
DropFields(m, deserializer) ==
    LET strong == m.strong - deserializer.account_handles - 1
    IN  [m EXCEPT !.strong = strong, !.allocated = strong > 0]

\* dropping one JsonAccountsDeserializer value
drop_in_place(heap, deserializer) ==
    IF deserializer = Absent THEN heap
    ELSE [heap EXCEPT ![deserializer.type_de_map] =
              DropFields(DropJsonAccountsDeserializer(@), deserializer)]

\* HashMap::insert(id, json_deserializer): the value replaced is dropped
InsertDeserializer(map, heap, id, built) ==
    [map |-> [map EXCEPT ![id] = built.deserializer],
     heap |-> drop_in_place(Append(heap, built.allocation), map[id])]

\* ChainparserDeserializer::add_idl on the facade and the heap
add_idl_owned(map, heap, id, d, provider) ==
    LET r == DeserializeProviderTryFrom(d)
    IN  IF r.res.k = "Err" THEN [res |-> r.res, map |-> map, heap |-> heap]
        ELSE [res |-> OkUnit] @@
             InsertDeserializer(map, heap, id,
                                FromIdlAt(Len(heap) + 1, d, r.de_provider, provider))

\* ChainparserDeserializer::add_idl_json on the facade and the heap
add_idl_json_owned(map, heap, id, idl_json, provider) ==
    IF ~idl_json.parses THEN [res |-> ErrRes("ParseIdlError"), map |-> map, heap |-> heap]
    ELSE add_idl_owned(map, heap, id, idl_json.idl, provider)

\* dropping the facade drops every value of json_account_deserializers
RECURSIVE DropAll(_, _, _)
DropAll(map, heap, ids) ==
    IF ids = {} THEN heap
    ELSE LET id == CHOOSE id \in ids : TRUE
         IN  DropAll(map, drop_in_place(heap, map[id]), ids \ {id})

\* the number of add calls of a run
MaxAdds == 3

\* IDLs with and without types, of both providers, with a serializer label
\* that resolves and one that does not
OwnedIdls ==
    {[serializer |-> label] @@ d : d \in {AnchorIdl, AnchorIdl2, ShankMany},
                                   label \in {"none", "bincode"}}

InitTeardown ==
    /\ pc = "ready"
    /\ de = "borsh"
    /\ opts = DefaultOpts
    /\ ty = Prim("U8")
    /\ input = <<>>
    /\ cur = Cursor(<<>>)
    /\ again = NoCall
    /\ ret = OkUnit
    /\ idl = NoIdl
    /\ json_account_deserializers = NoDeserializers
    /\ added = {}
    /\ type_de_maps = NoMaps /\ threads = NoThreads /\ lock_holder = Unlocked

AddIdlOwned ==
    /\ pc = "ready"
    /\ Len(type_de_maps) < MaxAdds
    /\ \E id \in Ids, d \in OwnedIdls :
          LET r == add_idl_owned(json_account_deserializers, type_de_maps, id, d, d.provider)
          IN  /\ json_account_deserializers' = r.map
              /\ type_de_maps' = r.heap
              /\ added' = IF r.res.k = "Ok" THEN added \cup {id} ELSE added
              /\ ret' = r.res
    /\ UNCHANGED <<pc, de, opts, ty, input, cur, again, idl, threads, lock_holder>>

AddIdlJsonOwned ==
    /\ pc = "ready"
    /\ Len(type_de_maps) < MaxAdds
    /\ \E id \in Ids, d \in OwnedIdls, parses \in BOOLEAN :
          LET r == add_idl_json_owned(json_account_deserializers, type_de_maps, id,
                                      IdlJson(parses, d), d.provider)
          IN  /\ json_account_deserializers' = r.map
              /\ type_de_maps' = r.heap
              /\ added' = IF r.res.k = "Ok" THEN added \cup {id} ELSE added
              /\ ret' = r.res
    /\ UNCHANGED <<pc, de, opts, ty, input, cur, again, idl, threads, lock_holder>>

\* the facade goes out of scope
DropFacade ==
    /\ pc = "ready"
    /\ pc' = "dropped"
    /\ type_de_maps' = DropAll(json_account_deserializers, type_de_maps, Ids)
    /\ json_account_deserializers' = NoDeserializers
    /\ UNCHANGED <<de, opts, ty, input, cur, again, ret, idl, added, threads, lock_holder>>

NextTeardown == AddIdlOwned \/ AddIdlJsonOwned \/ DropFacade

SpecTeardown == InitTeardown /\ [][NextTeardown]_vars

-----------------------------------------------------------------------------
(* C25: teardown of the registry *)

\* the allocations a decoder registered in the facade still owns
Owned ==
    {json_account_deserializers[id].type_de_map :
        id \in {i \in Ids : json_account_deserializers[i] # Absent}}

\* C25: whenever a JsonAccountsDeserializer is dropped (with the facade, or
\* when add_idl / add_idl_json replaces the decoder registered under an id),
\* its name -> decoder map is cleared first: after the teardown the map holds
\* no decoder handle and no cycle through the map keeps it allocated.
C25_TeardownClearsTheMap ==
    \A h \in 1..Len(type_de_maps) :
        IF h \in Owned
        THEN /\ type_de_maps[h].allocated
             /\ type_de_maps[h].strong >= 1 + EntryHandles(type_de_maps[h].entries)
        ELSE /\ type_de_maps[h].entries = <<>>
             /\ type_de_maps[h].strong = 0
             /\ ~type_de_maps[h].allocated

\* a decoder with six registered types is replaced under its id, and the
\* replacement is dropped with the facade
C25_Witness ==
    /\ pc = "dropped" /\ Len(type_de_maps) = 2 /\ added = {"Prog1"}
    /\ \A h \in 1..2 : type_de_maps[h].entries = <<>> /\ ~type_de_maps[h].allocated

-----------------------------------------------------------------------------
(* src/idl/idl_address.rs: the size oracle with its call stack made        *)
(* explicit.  idl_type_bytes and idl_def_bytes are pure and keep no state: *)
(* a call of idl_def_bytes on a definition while a call on the same        *)
(* definition is on the stack repeats without end, until the stack         *)
(* overflows and the process aborts.                                       *)

StackOverflow == -2

RECURSIVE idl_type_bytes_on(_, _, _), StructSizeOn(_, _, _, _)

\* idl_def_bytes under the definitions named in `active` being sized
idl_def_bytes_on(dty, type_map, active) ==
    IF dty.k = "Struct" THEN StructSizeOn(dty.fields, 1, type_map, active)
    ELSE IF \A i \in 1..Len(dty.variants) : dty.variants[i].fields.k = "None"
         THEN 1
         ELSE NoSize

\* idl_type_bytes under the definitions named in `active` being sized
idl_type_bytes_on(t, type_map, active) ==
    CASE t.k \in {"U8", "I8", "Bool"} -> 1
      [] t.k \in {"U16", "I16"} -> 2
      [] t.k \in {"U32", "I32", "F32"} -> 4
      [] t.k \in {"U64", "I64", "F64"} -> 8
      [] t.k \in {"U128", "I128"} -> 16
      [] t.k = "PublicKey" -> 32
      [] t.k = "Array" ->
            LET x == idl_type_bytes_on(t.inner, type_map, active)
            IN  IF x \in {NoSize, StackOverflow} THEN x ELSE x * t.len
      [] t.k = "COption" ->
            LET x == idl_type_bytes_on(t.inner, type_map, active)
            IN  IF x \in {NoSize, StackOverflow} THEN x ELSE x + 4
      [] t.k = "Defined" ->
            LET i == IF type_map.some THEN MapIndex(type_map.defs, t.name) ELSE 0
            IN  IF i = 0 THEN NoSize
                ELSE IF t.name \in active THEN StackOverflow
                ELSE idl_def_bytes_on(type_map.defs[i].ty, type_map, active \cup {t.name})
      [] OTHER -> NoSize

\* the `for field in fields` loop of idl_def_bytes, from field i on
StructSizeOn(fields, i, type_map, active) ==
    IF i > Len(fields) THEN 0
    ELSE LET size == idl_type_bytes_on(fields[i].ty, type_map, active)
         IN  IF size \in {NoSize, StackOverflow} THEN size
             ELSE LET rest == StructSizeOn(fields, i + 1, type_map, active)
                  IN  IF rest \in {NoSize, StackOverflow} THEN rest ELSE size + rest

\* base_account_sizes: the loop sizes every field of the account, from field i on
RECURSIVE SizesOverflow(_, _, _)
SizesOverflow(fields, i, type_map) ==
    /\ i <= Len(fields)
    /\ \/ idl_type_bytes_on(fields[i].ty, type_map, {}) = StackOverflow
       \/ SizesOverflow(fields, i + 1, type_map)

\* JsonAccountsDeserializer::from_idl of a Shank IDL, as far as the matchers:
\* MatchDiscriminators::from sizes the fields of every struct account
from_idl_sized(d) ==
    IF \E a \in 1..Len(d.accounts) :
          /\ d.accounts[a].ty.k = "Struct"
          /\ SizesOverflow(d.accounts[a].ty.fields, 1, SomeTypeMap(d.types))
    THEN [k |-> "stack overflow"]
    ELSE [k |-> "some",
          discriminators |-> MatchDiscriminatorsFrom(d.accounts, SomeTypeMap(d.types))]

\* the number of fields of the named type Node
MaxNodeFields == 2

\* field types of Node: sized, unsized, and references to Node and to Leaf
NodeFieldTypes ==
    { Prim("U8"), Prim("String"), TDefined("Node"), TDefined("Leaf"),
      TCOption(TDefined("Node")), TArray(TDefined("Node"), 2), TOption(TDefined("Node")) }

RECURSIVE NodeFieldSeqs(_)
NodeFieldSeqs(n) ==
    IF n = 0 THEN {<<>>}
    ELSE NodeFieldSeqs(n - 1) \cup
         {Append(q, t) : q \in {x \in NodeFieldSeqs(n - 1) : Len(x) = n - 1},
                         t \in NodeFieldTypes}

FieldsOf(types) == [i \in 1..Len(types) |-> Field(FieldName(i), types[i])]

\* Shank IDLs with the types Node and Leaf and one account
SizedIdls ==
    {[provider |-> "Shank",
      accounts |-> <<TypeDef("Acc", Struct(<<Field("flag", Prim("Bool")),
                                             Field("body", body)>>))>>,
      types |-> <<TypeDef("Node", Struct(FieldsOf(node))),
                  TypeDef("Leaf", Struct(<<Field("v", leaf)>>))>>] :
        node \in NodeFieldSeqs(MaxNodeFields),
        leaf \in {Prim("U8"), TDefined("Node")},
        body \in {TDefined("Node"), TDefined("Leaf"), TCOption(TDefined("Leaf")),
                  Prim("U32")}}

InitSizes ==
    /\ pc = "ready"
    /\ de = "borsh"
    /\ opts = DefaultOpts
    /\ ty \in {TDefined("Node"), TDefined("Leaf"), TArray(TDefined("Leaf"), 2)}
    /\ input = <<>>
    /\ cur = Cursor(<<>>)
    /\ again = NoCall
    /\ ret = NoRet
    /\ idl \in SizedIdls
    /\ json_account_deserializers = NoDeserializers
    /\ added = {}
    /\ type_de_maps = NoMaps /\ threads = NoThreads /\ lock_holder = Unlocked

\* one call of the size oracle
IdlTypeBytes ==
    /\ pc = "ready"
    /\ pc' = "sized"
    /\ ret' = [size |-> idl_type_bytes_on(ty, SomeTypeMap(idl.types), {})]
    /\ UNCHANGED <<de, opts, ty, input, cur, again, idl, json_account_deserializers, added,
                   type_de_maps, threads, lock_holder>>

\* registering the Shank IDL
FromShankIdl ==
    /\ pc = "ready"
    /\ pc' = "registered"
    /\ ret' = from_idl_sized(idl)
    /\ UNCHANGED <<de, opts, ty, input, cur, again, idl, json_account_deserializers, added,
                   type_de_maps, threads, lock_holder>>

NextSizes == IdlTypeBytes \/ FromShankIdl

SpecSizes == InitSizes /\ [][NextSizes]_vars

-----------------------------------------------------------------------------
(* C28: termination of the size oracle *)

\* C28: the size oracle terminates on every IDL, those whose named types
\* refer to themselves through Defined, Array or COption included:
\* idl_type_bytes returns Some(n) or None, and registering a Shank IDL
\* completes.
C28_SizeOracleTerminates ==
    /\ pc = "sized" => ret.size # StackOverflow
    /\ pc = "registered" => ret.k = "some"

\* the named types a type is sized through: Defined, Array and COption are
\* followed, every other composite is None at once
RECURSIVE SizedThrough(_)
SizedThrough(t) ==
    CASE t.k = "Defined" -> {t.name}
      [] t.k \in {"Array", "COption"} -> SizedThrough(t.inner)
      [] OTHER -> {}

RefsOfDef(def) == UNION {SizedThrough(def.ty.fields[i].ty) : i \in 1..Len(def.ty.fields)}

\* the named types reachable from a set of names in at most n steps
RECURSIVE ReachIn(_, _, _)
ReachIn(names, defs, n) ==
    IF n = 0 THEN names
    ELSE ReachIn(names \cup UNION {RefsOfDef(defs[i]) : i \in {j \in 1..Len(defs) :
                                                            defs[j].name \in names}},
                 defs, n - 1)

\* no named type is sized through itself
Acyclic(defs) ==
    \A i \in 1..Len(defs) :
        defs[i].name \notin ReachIn(RefsOfDef(defs[i]), defs, Len(defs))

\* C28, what holds: on IDLs no named type of which is sized through itself
\* the oracle returns, and returns what the recursion of the code computes.
C28_TerminatesWhenAcyclic ==
    Acyclic(idl.types) =>
        /\ pc = "sized" => /\ ret.size # StackOverflow
                           /\ ret.size = idl_type_bytes(ty, SomeTypeMap(idl.types))
        /\ pc = "registered" => ret.k = "some"

\* Node {f1: COption<Node>}: sizing the account's field of type Node never
\* returns
C28_Witness ==
    /\ pc = "registered" /\ ret.k = "stack overflow"
    /\ idl.types[1] = TypeDef("Node", Struct(<<Field(FieldName(1), TCOption(TDefined("Node")))>>))
    /\ idl.accounts[1].ty.fields[2].ty = TDefined("Node")

-----------------------------------------------------------------------------
(* src/json/json_idl_type_de.rs, the Defined arm: decode calls on threads  *)
(* that share one facade, hence one Arc<Mutex<HashMap>> registry.  A       *)
(* thread's record holds its position in the arm (pc), the name it is      *)
(* resolving (want) and the stack of decoders it is running, each with the *)
(* index of the field it decodes next.  std::sync::Mutex is not reentrant: *)
(* lock() blocks while any thread, the caller included, holds the guard.   *)

Threads == {"t1", "t2"}

\* the registered types: nested references, a reference to itself under an
\* Option, and a reference to a name that is not registered
LockTypes ==
    << TypeDef("Outer", Struct(<<Field("i", TDefined("Inner")),
                                 Field("t", TOption(TDefined("Tree")))>>)),
       TypeDef("Inner", Struct(<<Field("l", TDefined("Leaf")),
                                 Field("n", Prim("U8"))>>)),
       TypeDef("Leaf", Struct(<<Field("v", Prim("U8"))>>)),
       TypeDef("Tree", Struct(<<Field("l", TDefined("Leaf")),
                                Field("next", TOption(TDefined("Tree")))>>)),
       TypeDef("Broken", Struct(<<Field("g", TDefined("Ghost"))>>)) >>

LockRoots == {"Outer", "Tree", "Leaf", "Broken", "Ghost"}

\* the bytes of a call bound how deep the references under Option go
MaxNesting == 3

Frame(name) == [name |-> name, next |-> 1]
IdleThread == [pc |-> "idle", want |-> "none", stack |-> <<>>, res |-> "none", locks |-> 0]

\* the guard kept alive over the match on the handle it produced
HolderAfterLookup_guard_kept(t) == t

\* `let ty = { self.type_map.lock().unwrap().get(name).cloned() };`: the
\* guard is a temporary of the block and is dropped where the block ends
HolderAfterLookup(t) == Unlocked

\* the thread after the decoder on top of its stack has returned
Returned(th) ==
    LET rest == SubSeq(th.stack, 1, Len(th.stack) - 1)
    IN  IF rest = <<>> THEN [th EXCEPT !.pc = "done", !.stack = <<>>, !.res = "ok"]
        ELSE [th EXCEPT !.stack = rest]

InitLock ==
    /\ pc = "ready"
    /\ de = "borsh"
    /\ opts = DefaultOpts
    /\ ty = Prim("U8")
    /\ input = <<>>
    /\ cur = Cursor(<<>>)
    /\ again = NoCall
    /\ ret = NoRet
    /\ idl = NoIdl
    /\ json_account_deserializers = NoDeserializers
    /\ added = {}
    /\ type_de_maps = NoMaps
    /\ threads = [t \in Threads |-> IdleThread]
    /\ lock_holder = Unlocked

Unchanged_but_threads ==
    UNCHANGED <<pc, de, opts, ty, input, cur, again, ret, idl, json_account_deserializers,
                added, type_de_maps>>

\* a thread calls JsonIdlTypeDeserializer::deserialize on Defined(name)
StartDecode(t) ==
    /\ threads[t].pc = "idle"
    /\ \E name \in LockRoots :
          threads' = [threads EXCEPT ![t].pc = "locking", ![t].want = name]
    /\ UNCHANGED lock_holder
    /\ Unchanged_but_threads

\* self.type_map.lock(): returns once no guard is alive
Lock(t) ==
    /\ threads[t].pc = "locking"
    /\ lock_holder = Unlocked
    /\ lock_holder' = t
    /\ threads' = [threads EXCEPT ![t].pc = "cloning", ![t].locks = @ + 1]
    /\ Unchanged_but_threads

\* .get(name).cloned() under the guard, and the end of the block; a name
\* that is not registered is CannotFindDefinedType, returned through every
\* caller
CloneHandle(t) ==
    /\ threads[t].pc = "cloning"
    /\ lock_holder = t
    /\ lock_holder' = HolderAfterLookup(t)
    /\ threads' =
          IF MapIndex(LockTypes, threads[t].want) # 0
          THEN [threads EXCEPT ![t].pc = "running",
                               ![t].stack = Append(@, Frame(threads[t].want))]
          ELSE [threads EXCEPT ![t].pc = "done", ![t].stack = <<>>,
                               ![t].res = "CannotFindDefinedType"]
    /\ Unchanged_but_threads

\* deser.deserialize(de, f, buf): the decoder on top of the stack decodes its
\* next field, or returns to its caller; an Option reads its tag and decodes
\* or skips its inner type
RunDecoder(t) ==
    /\ threads[t].pc = "running"
    /\ LET th == threads[t]
           top == th.stack[Len(th.stack)]
           fields == LockTypes[MapIndex(LockTypes, top.name)].ty.fields
           stepped == [th EXCEPT !.stack[Len(th.stack)].next = @ + 1]
       IN  IF top.next > Len(fields)
           THEN threads' = [threads EXCEPT ![t] = Returned(th)]
           ELSE LET fty == fields[top.next].ty
                IN  CASE fty.k = "Defined" ->
                            threads' = [threads EXCEPT ![t] =
                                           [stepped EXCEPT !.pc = "locking",
                                                           !.want = fty.name]]
                      [] fty.k = "Option" ->
                            \E tag \in {0, 1} :
                               /\ tag = 1 => Len(th.stack) < MaxNesting
                               /\ threads' = [threads EXCEPT ![t] =
                                     IF tag = 0 THEN stepped
                                     ELSE [stepped EXCEPT !.pc = "locking",
                                                          !.want = fty.inner.name]]
                      [] OTHER -> threads' = [threads EXCEPT ![t] = stepped]
    /\ UNCHANGED lock_holder
    /\ Unchanged_but_threads

ThreadStep(t) == StartDecode(t) \/ Lock(t) \/ CloneHandle(t) \/ RunDecoder(t)

NextLock == \E t \in Threads : ThreadStep(t)

SpecLock == InitLock /\ [][NextLock]_vars

\* every thread that can take a step is scheduled again
SpecLockFair == SpecLock /\ \A t \in Threads : WF_vars(ThreadStep(t))

-----------------------------------------------------------------------------
(* C29: the registry mutex and recursion *)

\* the guard is alive only between lock() and the end of the lookup block
GuardOnlyInLookup ==
    \A t \in Threads :
        /\ lock_holder = t => threads[t].pc = "cloning"
        /\ threads[t].pc \in {"locking", "running", "done"} => lock_holder # t

\* C29: the registry mutex is never held while a decoder recurses: resolving
\* Defined(name) takes the lock only to clone the handle and releases it
\* before the referenced decoder runs, so a decode of nested or cyclic
\* Defined references never waits for a lock its own call holds, and decode
\* calls on threads sharing one facade do not deadlock: every call returns.
C29_LockReleasedBeforeRecursion ==
    /\ []GuardOnlyInLookup
    /\ \A t \in Threads : (threads[t].pc = "locking") ~> (threads[t].pc = "done")

\* t1 resolves Tree inside Tree inside Tree while t2 holds the guard
C29_Witness ==
    /\ threads["t1"].pc = "locking" /\ threads["t1"].want = "Leaf"
    /\ Len(threads["t1"].stack) = MaxNesting
    /\ \A i \in 1..MaxNesting : threads["t1"].stack[i].name = "Tree"
    /\ lock_holder = "t2" /\ threads["t2"].pc = "cloning"
    /\ Len(threads["t2"].stack) = 2

====
